---- MODULE Spec2Model ----
(***************************************************************************)
(* A model of the Fortiel preprocessor (src/src/fortiel.py): the line      *)
(* scanner with `&` continuations (FortielParser), and the tree executor   *)
(* (FortielExecutor) with its scope, macro table, imported-files set and   *)
(* output sink; and of the compiler wrapper (src/src/gfortiel.py).         *)
(*                                                                         *)
(* Text is modelled as a sequence of chunks: a chunk is either one         *)
(* punctuation or blank character (" ", "&", "#", "$", "@", ",", ":",      *)
(* "!", "\n") or one whole word (an identifier or a decimal literal).      *)
(* Python values are records [t, i, s, e]: a type tag and its payloads.    *)
(***************************************************************************)
EXTENDS Integers, Sequences, FiniteSets, TLC

(***************************************************************************)
(* Bounds of the model.                                                    *)
(***************************************************************************)
\* Number of sibling groups of root nodes of the main file executed in a run.
MaxNodes == 2
\* Number of lines of a file handed to the parser.
MaxLines == 3

(***************************************************************************)
(* Text helpers (Python str methods on chunk sequences).                   *)
(***************************************************************************)
IsSpace(c) == c \in {" ", "\t"}

RECURSIVE LStrip(_)
LStrip(s) == IF s # <<>> /\ IsSpace(Head(s)) THEN LStrip(Tail(s)) ELSE s

RECURSIVE RStrip(_)
RStrip(s) ==
    IF s # <<>> /\ IsSpace(s[Len(s)]) THEN RStrip(SubSeq(s, 1, Len(s) - 1)) ELSE s

StartsWith(s, p) == Len(s) >= Len(p) /\ SubSeq(s, 1, Len(p)) = p

EndsWith(s, p) == Len(s) >= Len(p) /\ SubSeq(s, Len(s) - Len(p) + 1, Len(s)) = p

RemovePrefix(s, p) == IF StartsWith(s, p) THEN SubSeq(s, Len(p) + 1, Len(s)) ELSE s

RemoveSuffix(s, p) == IF EndsWith(s, p) THEN SubSeq(s, 1, Len(s) - Len(p)) ELSE s

\* Number of leading blank chunks of s, counted from position p.
RECURSIVE SkipSpaces(_, _)
SkipSpaces(s, p) == IF p <= Len(s) /\ IsSpace(s[p]) THEN SkipSpaces(s, p + 1) ELSE p

RECURSIVE JoinLines(_, _)
JoinLines(ls, sep) ==
    IF ls = <<>> THEN <<>>
    ELSE IF Len(ls) = 1 THEN ls[1]
    ELSE ls[1] \o sep \o JoinLines(Tail(ls), sep)

\* str.splitlines() of one "\n"-joined text.
RECURSIVE SplitLinesFrom(_, _, _)
SplitLinesFrom(s, p, cur) ==
    IF p > Len(s) THEN (IF cur = <<>> THEN <<>> ELSE <<cur>>)
    ELSE IF s[p] = "\n" THEN <<cur>> \o SplitLinesFrom(s, p + 1, <<>>)
    ELSE SplitLinesFrom(s, p + 1, Append(cur, s[p]))

(***************************************************************************)
(* Python dict helpers.                                                    *)
(***************************************************************************)
Put(d, k, v) == [x \in (DOMAIN d) \cup {k} |-> IF x = k THEN v ELSE d[x]]

Remove(d, k) == [x \in (DOMAIN d) \ {k} |-> d[x]]

\* dict `|=` / update: the entries of e shadow those of d.
Merge(d, e) == [x \in (DOMAIN d) \cup (DOMAIN e) |-> IF x \in DOMAIN e THEN e[x] ELSE d[x]]

EmptyDict == [x \in {} |-> 0]

(***************************************************************************)
(* Python values.                                                          *)
(***************************************************************************)
\* A value is [t, i, s, e]: the type tag, the integer of an int, the text
\* of a str (or the parameter names of a function), and the elements of a
\* tuple or list (or the body of a function).
IntV(n) == [t |-> "int", i |-> n, s |-> <<>>, e |-> <<>>]
StrV(text) == [t |-> "str", i |-> 0, s |-> text, e |-> <<>>]
TupV(elements) == [t |-> "tuple", i |-> 0, s |-> <<>>, e |-> elements]
ListV(elements) == [t |-> "list", i |-> 0, s |-> <<>>, e |-> elements]
NoneV == [t |-> "NoneType", i |-> 0, s |-> <<>>, e |-> <<>>]
BoolV(b) == [t |-> "bool", i |-> IF b THEN 1 ELSE 0, s |-> <<>>, e |-> <<>>]

\* bool(value), the test of `if condition:`.
Truthy(val) ==
    CASE val.t \in {"int", "bool"} -> val.i # 0
      [] val.t = "str" -> val.s # <<>>
      [] val.t \in {"tuple", "list"} -> val.e # <<>>
      [] val.t = "NoneType" -> FALSE
      [] OTHER -> TRUE

\* Decimal literals that the chunk alphabet contains.
DigitVal == [d \in {"0", "1", "2", "3"} |-> CASE d = "0" -> 0 [] d = "1" -> 1
                                              [] d = "2" -> 2 [] d = "3" -> 3]

\* Chunks matched by the regular expression class \w+.
WordChunks == {"a", "b", "i", "x", "y", "m", "mm", "c", "s", "endm", "endmm", "endc",
               "let", "del", "__FILE__", "__LINE__", "__INDEX__", "__DATE__",
               "__TIME__", "A", "M", "LET"} \cup DOMAIN DigitVal

IsWord(c) == c \in WordChunks

\* str(value)
RECURSIVE Str(_)
RECURSIVE StrItems(_)
StrItems(vs) ==
    IF vs = <<>> THEN <<>>
    ELSE IF Len(vs) = 1 THEN Str(vs[1])
    ELSE Str(vs[1]) \o <<",", " ">> \o StrItems(Tail(vs))
Str(val) ==
    CASE val.t = "int" -> <<ToString(val.i)>>
      [] val.t = "str" -> val.s
      [] val.t = "tuple" -> <<"(">> \o StrItems(val.e) \o <<")">>
      [] val.t = "list" -> <<"[">> \o StrItems(val.e) \o <<"]">>
      [] val.t = "NoneType" -> <<"None">>
      [] OTHER -> <<"<", val.t, ">">>

(***************************************************************************)
(* Errors.  kind "none" means that no exception is in flight; the kinds    *)
(* "FortielSyntaxError" and "FortielRuntimeError" are the preprocessor's   *)
(* own errors, any other kind is a Python exception that escapes as is.    *)
(***************************************************************************)
NoErr == [kind |-> "none", msg |-> "", file |-> <<>>, line |-> 0]

Err(kind, msg, file, line) == [kind |-> kind, msg |-> msg, file |-> file, line |-> line]

FortielRuntimeError(msg, file, line) == Err("FortielRuntimeError", msg, file, line)

FortielSyntaxError(msg, file, line) == Err("FortielSyntaxError", msg, file, line)

PyError(kind) == Err(kind, "", <<>>, 0)

_FORTIEL_BUILTINS_NAMES == {"__INDEX__", "__FILE__", "__LINE__", "__DATE__", "__TIME__"}

(***************************************************************************)
(* Expressions.  An expression is a literal or a name to look up.          *)
(***************************************************************************)
Lit(val) == [k |-> "lit", n |-> "", val |-> val, text |-> <<>>]
Ref(n) == [k |-> "name", n |-> n, val |-> NoneV, text |-> <<>>]
\* An expression as the parser stores it: the text of the directive.
Text(text) == [k |-> "text", n |-> "", val |-> NoneV, text |-> text]

\* The expressions `name("text")` and `not name("text")`.
Call(n, text) == [k |-> "call", n |-> n, val |-> StrV(text), text |-> <<>>]
NotCall(n, text) == [k |-> "notcall", n |-> n, val |-> StrV(text), text |-> <<>>]

\* The value of `lambda arguments: value_expression`.
FuncV(arguments, value_expression) ==
    [t |-> "function", i |-> 0, s |-> arguments, e |-> <<value_expression>>]

\* The expression that a \w+ chunk of a code line denotes.
WordExpression(w) == IF w \in DOMAIN DigitVal THEN Lit(IntV(DigitVal[w])) ELSE Ref(w)

\* eval() of a parsed expression in a scope.  A call applies the lambda
\* that the name is bound to; its parameter is local to the call.  Every
\* exception of eval (NameError, TypeError) is wrapped by the caller.
RECURSIVE EvalParsed(_, _, _, _)
EvalParsed(expression, s1, file_path, line_number) ==
    LET error == [val |-> NoneV, scope |-> s1,
                  err |-> FortielRuntimeError("Python expression evaluation error",
                                              file_path, line_number)]
    IN  IF expression.k = "lit" THEN [val |-> expression.val, scope |-> s1, err |-> NoErr]
        ELSE IF expression.n \notin DOMAIN s1 THEN error
        ELSE IF expression.k \notin {"call", "notcall"}
        THEN [val |-> s1[expression.n], scope |-> s1, err |-> NoErr]
        ELSE IF s1[expression.n].t # "function" \/ Len(s1[expression.n].s) # 1 THEN error
        ELSE LET func == s1[expression.n]
                 r == EvalParsed(func.e[1], Put(s1, func.s[1], expression.val),
                                 file_path, line_number)
             IN  IF r.err.kind # "none" THEN error
                 ELSE [val |-> IF expression.k = "call" THEN r.val
                               ELSE BoolV(~Truthy(r.val)),
                       scope |-> s1, err |-> NoErr]

\* FortielExecutor._evaluate_expression: returns the value, the updated scope
\* and the error raised.  The text of an expression is a Python expression
\* when it is one word; any other text of the model is a Python syntax error.
EvaluateExpression(expression, scope, file_path, line_number) ==
    LET s1 == Put(Put(Put(scope, "__FILE__", StrV(file_path)),
                      "__LINE__", IntV(line_number)),
                  "__builtins__", [t |-> "dict", i |-> 0, s |-> <<>>, e |-> <<>>])
    IN  IF expression.k # "text" THEN EvalParsed(expression, s1, file_path, line_number)
        ELSE IF Len(expression.text) = 1 /\ IsWord(expression.text[1])
        THEN EvalParsed(WordExpression(expression.text[1]), s1, file_path, line_number)
        ELSE [val |-> NoneV, scope |-> s1,
              err |-> FortielRuntimeError("Python expression evaluation error",
                                          file_path, line_number)]

\* Python range(start, stop, step) for step # 0.
RECURSIVE Range(_, _, _)
Range(start, stop, step) ==
    IF (step > 0 /\ start >= stop) \/ (step < 0 /\ start <= stop) THEN <<>>
    ELSE <<start>> \o Range(start + step, stop, step)

\* FortielExecutor._evaluate_ranges_expression: returns the index sequence.
EvaluateRangesExpression(expression, scope, file_path, line_number) ==
    LET Ranges(r) ==
            LET ranges == r.val
            IN  IF r.err.kind # "none" THEN [range |-> <<>>, scope |-> r.scope, err |-> r.err]
                ELSE IF ~(/\ ranges.t = "tuple"
                          /\ Len(ranges.e) \in 2..3
                          /\ \A k \in 1..Len(ranges.e) : ranges.e[k].t = "int")
                THEN [range |-> <<>>, scope |-> r.scope,
                      err |-> FortielRuntimeError("tuple of two or three integers expected",
                                                  file_path, line_number)]
                ELSE LET start == ranges.e[1].i
                         stop == ranges.e[2].i
                         step == IF Len(ranges.e) = 3 THEN ranges.e[3].i ELSE 1
                     IN  IF step = 0
                         THEN [range |-> <<>>, scope |-> r.scope, err |-> PyError("ValueError")]
                         ELSE [range |-> Range(start, stop + step, step),
                               scope |-> r.scope, err |-> NoErr]
    IN  Ranges(EvaluateExpression(expression, scope, file_path, line_number))

\* FortielExecutor._loop_index (getter): None when the key is absent.
LoopIndex(scope) ==
    IF "__LOOP_INDEX__" \in DOMAIN scope THEN scope["__LOOP_INDEX__"] ELSE NoneV

(***************************************************************************)
(* The substitution engine, FortielExecutor._evaluate_line.  Its regular   *)
(* expressions are matched on chunks; a pass is a left-to-right scan that  *)
(* replaces every non-overlapping match by the result of its callback,     *)
(* as re.sub does.  The passes over `@{..}@` and `${..}$` need a "{" chunk *)
(* and leave a line without one as it is.                                  *)
(***************************************************************************)
NoGroup == [some |-> FALSE, text |-> <<>>]
Group(text) == [some |-> TRUE, text |-> text]

IsLoopExpression(s, p) == p <= Len(s) /\ (s[p] = ":" \/ IsWord(s[p]))

\* The optional group (?P<comma_after>\s*,) tried at position p.
CommaAfter(s, p) ==
    LET r == SkipSpaces(s, p)
    IN  IF r <= Len(s) /\ s[r] = ","
        THEN [group |-> Group(SubSeq(s, p, r)), end |-> r + 1]
        ELSE [group |-> NoGroup, end |-> p]

\* _FORTIEL_INLINE_SHORT_LOOP matched at position p of s.
MatchShortLoop(s, p) ==
    LET q == SkipSpaces(s, p + 1)
    IN  IF s[p] = "," /\ q <= Len(s) /\ s[q] \in {"@", "^"} /\ IsLoopExpression(s, q + 1)
        THEN LET ca == CommaAfter(s, q + 2)
             IN  [ok |-> TRUE, comma_before |-> Group(SubSeq(s, p, q - 1)),
                  expression |-> <<s[q + 1]>>, comma_after |-> ca.group, end |-> ca.end]
        ELSE IF s[p] \in {"@", "^"} /\ IsLoopExpression(s, p + 1)
        THEN LET ca == CommaAfter(s, p + 2)
             IN  [ok |-> TRUE, comma_before |-> NoGroup,
                  expression |-> <<s[p + 1]>>, comma_after |-> ca.group, end |-> ca.end]
        ELSE [ok |-> FALSE, comma_before |-> NoGroup, expression |-> <<>>,
              comma_after |-> NoGroup, end |-> 0]

\* _FORTIEL_INLINE_SHORT_EVAL matched at position p of s: end is the position
\* of the \w+ chunk.
MatchShortEval(s, p) ==
    LET q == SkipSpaces(s, p + 1)
    IN  IF s[p] \in {"$", "@"} /\ q <= Len(s) /\ IsWord(s[q])
        THEN [ok |-> TRUE, expression |-> s[q], end |-> q + 1]
        ELSE [ok |-> FALSE, expression |-> "", end |-> 0]

\* ','.join([expression.replace('$$', str(i)) for i in ranges]) for an
\* expression without `$$`.
RECURSIVE JoinCopies(_, _)
JoinCopies(expression, n) ==
    IF n <= 0 THEN <<>>
    ELSE IF n = 1 THEN expression
    ELSE expression \o <<",">> \o JoinCopies(expression, n - 1)

RECURSIVE EvaluateLine(_, _, _, _)
RECURSIVE SubShortLoop(_, _, _, _, _, _)
RECURSIVE SubShortEval(_, _, _, _, _, _)
RECURSIVE SubPragmaLines(_, _, _, _, _)

\* _evaluate_inline_loop_expression_sub for a match without ranges_expression.
EvaluateInlineLoopExpressionSub(m, scope, file_path, line_number) ==
    LET index == LoopIndex(scope)
    IN  IF index.t = "NoneType"
        THEN [line |-> <<>>, scope |-> scope,
              err |-> FortielRuntimeError("rangeless substitution outside of the <do> loop body",
                                          file_path, line_number)]
        ELSE LET copies == JoinCopies(m.expression, IF index.i > 0 THEN index.i ELSE 0)
                 sub == IF Len(copies) > 0
                        THEN m.comma_before.text \o copies \o m.comma_after.text
                        ELSE IF m.comma_before.some /\ m.comma_after.some
                             THEN <<",">> ELSE <<>>
             IN  EvaluateLine(sub, scope, file_path, line_number)

\* _evaluate_inline_eval_expression_sub for the expression of a \w+ chunk.
EvaluateInlineEvalExpressionSub(word, scope, file_path, line_number) ==
    LET Substituted(r) ==
            IF r.err.kind # "none" THEN [line |-> <<>>, scope |-> r.scope, err |-> r.err]
            ELSE EvaluateLine(IF r.val.t = "int" /\ r.val.i < 0
                              THEN <<"(">> \o Str(r.val) \o <<")">>
                              ELSE Str(r.val),
                              r.scope, file_path, line_number)
    IN  Substituted(EvaluateExpression(WordExpression(word), scope, file_path, line_number))

SubShortLoop(s, p, acc, scope, file_path, line_number) ==
    IF p > Len(s) THEN [line |-> acc, scope |-> scope, err |-> NoErr]
    ELSE LET m == MatchShortLoop(s, p)
         IN  IF ~m.ok
             THEN SubShortLoop(s, p + 1, Append(acc, s[p]), scope, file_path, line_number)
             ELSE LET Replaced(r) ==
                          IF r.err.kind # "none" THEN r
                          ELSE SubShortLoop(s, m.end, acc \o r.line, r.scope,
                                            file_path, line_number)
                  IN  Replaced(EvaluateInlineLoopExpressionSub(m, scope, file_path,
                                                               line_number))

SubShortEval(s, p, acc, scope, file_path, line_number) ==
    IF p > Len(s) THEN [line |-> acc, scope |-> scope, err |-> NoErr]
    ELSE LET m == MatchShortEval(s, p)
         IN  IF ~m.ok
             THEN SubShortEval(s, p + 1, Append(acc, s[p]), scope, file_path, line_number)
             ELSE LET Replaced(r) ==
                          IF r.err.kind # "none" THEN r
                          ELSE SubShortEval(s, m.end, acc \o r.line, r.scope,
                                            file_path, line_number)
                  IN  Replaced(EvaluateInlineEvalExpressionSub(m.expression, scope,
                                                               file_path, line_number))

\* The OpenMP/OpenACC special case: the leading `!$` of every physical line
\* is kept out of the name substitution.
SubPragmaLines(pragma_lines, processed_lines, scope, file_path, line_number) ==
    IF pragma_lines = <<>>
    THEN [line |-> JoinLines(processed_lines, <<"\n">>), scope |-> scope, err |-> NoErr]
    ELSE LET pragma_line == Head(pragma_lines)
             cut == Len(pragma_line) - Len(RemovePrefix(LStrip(pragma_line), <<"!", "$">>))
             Processed(r) ==
                 IF r.err.kind # "none" THEN r
                 ELSE SubPragmaLines(Tail(pragma_lines),
                          Append(processed_lines, SubSeq(pragma_line, 1, cut) \o r.line),
                          r.scope, file_path, line_number)
         IN  Processed(SubShortEval(SubSeq(pragma_line, cut + 1, Len(pragma_line)), 1, <<>>,
                                    scope, file_path, line_number))

EvaluateLine(line, scope, file_path, line_number) ==
    LET ShortEval(l2) ==
            IF l2.err.kind # "none" THEN l2
            ELSE IF StartsWith(LStrip(l2.line), <<"!", "$">>)
            THEN SubPragmaLines(SplitLinesFrom(l2.line, 1, <<>>), <<>>, l2.scope, file_path, line_number)
            ELSE SubShortEval(l2.line, 1, <<>>, l2.scope, file_path, line_number)
    IN  ShortEval(SubShortLoop(line, 1, <<>>, scope, file_path, line_number))

(***************************************************************************)
(* Paths and the file system seen by _find_file.  A path is a sequence of  *)
(* components; an absolute path starts with the component "/".             *)
(***************************************************************************)
\* The working directory of the run and the directory of fortiel.py.
Cwd == <<"/", "w">>
Here == <<"/", "inst">>

\* The regular files that exist.
DiskFiles == {<<"/", "w", "main.x">>, <<"/", "w", "lib.fi">>, <<"/", "inst", "defs.fi">>,
              <<"/", "inst", "self.fi">>}

\* os.path.join
PathJoin(d, f) == IF f # <<>> /\ f[1] = "/" THEN f ELSE d \o f

\* os.path.dirname
DirName(p) == IF p = <<>> THEN <<>> ELSE SubSeq(p, 1, Len(p) - 1)

\* os.path.normpath of an absolute path: drops "." and resolves "..".
RECURSIVE NormFrom(_, _, _)
NormFrom(p, k, acc) ==
    IF k > Len(p) THEN acc
    ELSE IF p[k] = "." THEN NormFrom(p, k + 1, acc)
    ELSE IF p[k] = ".." THEN NormFrom(p, k + 1, IF Len(acc) > 1 THEN DirName(acc) ELSE acc)
    ELSE NormFrom(p, k + 1, Append(acc, p[k]))

\* os.path.abspath
AbsPath(p) == NormFrom(PathJoin(Cwd, p), 1, <<>>)

\* The file that the operating system opens for a path.
RealFile(p) == AbsPath(p)

\* os.path.exists
PathExists(p) == RealFile(p) \in DiskFiles

RECURSIVE FindInDirs(_, _)
FindInDirs(file_path, dir_paths) ==
    IF dir_paths = <<>> THEN [found |-> FALSE, path |-> <<>>]
    ELSE LET rel_file_path == PathJoin(Head(dir_paths), file_path)
         IN  IF PathExists(rel_file_path)
             THEN [found |-> TRUE, path |-> AbsPath(rel_file_path)]
             ELSE FindInDirs(file_path, Tail(dir_paths))

\* _find_file: the path found in the installation directory is returned as
\* joined, without abspath.
FindFile(file_path, dir_paths) ==
    IF PathExists(file_path) THEN [found |-> TRUE, path |-> AbsPath(file_path)]
    ELSE LET d == FindInDirs(file_path, dir_paths)
             rel_file_path == PathJoin(Here, file_path)
         IN  IF d.found THEN d
             ELSE IF PathExists(rel_file_path) THEN [found |-> TRUE, path |-> rel_file_path]
             ELSE [found |-> FALSE, path |-> <<>>]

\* The text of a path, as printed in a line marker.
RECURSIVE PathText(_)
PathText(p) ==
    IF p = <<>> THEN <<>>
    ELSE IF Len(p) = 1 \/ p[1] = "/" THEN <<p[1]>> \o PathText(Tail(p))
    ELSE <<p[1], "/">> \o PathText(Tail(p))

(***************************************************************************)
(* Syntax tree nodes (the dataclasses of fortiel.py).                      *)
(***************************************************************************)
NoArguments == [some |-> FALSE, list |-> <<>>]

FortielLineListNode(f, n, lines) ==
    [type |-> "LineList", file_path |-> f, line_number |-> n, lines |-> lines]
FortielUseNode(f, n, imported_file_path) ==
    [type |-> "Use", file_path |-> f, line_number |-> n,
     imported_file_path |-> imported_file_path]
FortielLetNode(f, n, name, arguments, value_expression) ==
    [type |-> "Let", file_path |-> f, line_number |-> n, name |-> name,
     arguments |-> arguments, value_expression |-> value_expression]
FortielDelNode(f, n, names) ==
    [type |-> "Del", file_path |-> f, line_number |-> n, names |-> names]
FortielElifNode(f, n, condition_expression, then_nodes) ==
    [type |-> "Elif", file_path |-> f, line_number |-> n,
     condition_expression |-> condition_expression, then_nodes |-> then_nodes]
FortielIfNode(f, n, condition_expression, then_nodes, elif_nodes, else_nodes) ==
    [type |-> "If", file_path |-> f, line_number |-> n,
     condition_expression |-> condition_expression, then_nodes |-> then_nodes,
     elif_nodes |-> elif_nodes, else_nodes |-> else_nodes]
FortielDoNode(f, n, index_name, ranges_expression, loop_nodes) ==
    [type |-> "Do", file_path |-> f, line_number |-> n, index_name |-> index_name,
     ranges_expression |-> ranges_expression, loop_nodes |-> loop_nodes]
FortielForNode(f, n, index_names, iterable_expression, loop_nodes) ==
    [type |-> "For", file_path |-> f, line_number |-> n, index_names |-> index_names,
     iterable_expression |-> iterable_expression, loop_nodes |-> loop_nodes]
FortielCallSegmentNode(f, n, spaces_before, name, argument) ==
    [type |-> "CallSegment", file_path |-> f, line_number |-> n,
     spaces_before |-> spaces_before, name |-> name, argument |-> argument]
FortielPatternNode(f, n, pattern, match_nodes) ==
    [type |-> "Pattern", file_path |-> f, line_number |-> n, pattern |-> pattern,
     match_nodes |-> match_nodes]
FortielSectionNode(f, n, name, once, pattern_nodes) ==
    [type |-> "Section", file_path |-> f, line_number |-> n, name |-> name,
     once |-> once, pattern_nodes |-> pattern_nodes]
FortielMacroNode(f, n, name, pattern_nodes, section_nodes, finally_nodes) ==
    [type |-> "Macro", file_path |-> f, line_number |-> n, name |-> name,
     pattern_nodes |-> pattern_nodes, section_nodes |-> section_nodes,
     finally_nodes |-> finally_nodes]
\* FortielCallNode.__init__ and FortielCallSectionNode.__init__
FortielCallNode(node) ==
    [type |-> "Call", file_path |-> node.file_path, line_number |-> node.line_number,
     spaces_before |-> node.spaces_before, name |-> node.name, argument |-> node.argument,
     captured_nodes |-> <<>>, call_section_nodes |-> <<>>]
FortielCallSectionNode(node) ==
    [type |-> "CallSection", file_path |-> node.file_path,
     line_number |-> node.line_number, name |-> node.name, argument |-> node.argument,
     captured_nodes |-> <<>>]

\* FortielMacroNode.is_construct and .section_names
IsConstruct(macro_node) ==
    Len(macro_node.section_nodes) > 0 \/ Len(macro_node.finally_nodes) > 0

SectionNames(macro_node) ==
    {macro_node.section_nodes[k].name : k \in 1..Len(macro_node.section_nodes)}

\* _find_duplicate applied to the section names.
HasDuplicate(names) == \E j, k \in 1..Len(names) : j < k /\ names[j] = names[k]

(***************************************************************************)
(* Macro patterns.  A compiled pattern is one of                           *)
(*   [kind |-> "empty"]                  ^$                                *)
(*   [kind |-> "any"]                    ^.*$                              *)
(*   [kind |-> "capture", group |-> g]   ^(?P<g>.+)$                       *)
(***************************************************************************)
PEmpty == [kind |-> "empty", group |-> ""]
PAny == [kind |-> "any", group |-> ""]
PCapture(g) == [kind |-> "capture", group |-> g]

\* pattern.match(argument) and match.groupdict()
MatchPattern(pattern, argument) ==
    CASE pattern.kind = "empty" -> [ok |-> argument = <<>>, groupdict |-> EmptyDict]
      [] pattern.kind = "any" -> [ok |-> TRUE, groupdict |-> EmptyDict]
      [] pattern.kind = "capture" ->
           [ok |-> argument # <<>>,
            groupdict |-> [g \in {pattern.group} |-> StrV(argument)]]

(***************************************************************************)
(* The files that a Use node can import, already parsed: the tree that     *)
(* FortielParser(written_path, lines).parse() returns for each file.       *)
(*   lib.fi:   #@ let b = 2 / x / #@ use "defs.fi"                         *)
(*   defs.fi:  #@ let a = 1 / #@ macro mm ^$ / y / #@ end macro /          *)
(*             #@ use "lib.fi"                                             *)
(*   self.fi:  #@ use "./self.fi" / #@ use "././self.fi" /                 *)
(*             #@ use "./././self.fi"                                      *)
(***************************************************************************)
FileTree(real_file, f) ==
    CASE real_file = <<"/", "w", "lib.fi">> ->
           <<FortielLetNode(f, 1, "b", NoArguments, Lit(IntV(2))),
             FortielLineListNode(f, 2, << <<"x">> >>),
             FortielUseNode(f, 3, <<"defs.fi">>)>>
      [] real_file = <<"/", "inst", "defs.fi">> ->
           <<FortielLetNode(f, 1, "a", NoArguments, Lit(IntV(1))),
             FortielMacroNode(f, 2, "mm",
                 <<FortielPatternNode(f, 2, PEmpty,
                       <<FortielLineListNode(f, 3, << <<"y">> >>)>>)>>, <<>>, <<>>),
             FortielUseNode(f, 5, <<"lib.fi">>)>>
      [] real_file = <<"/", "inst", "self.fi">> ->
           <<FortielUseNode(f, 1, <<".", "self.fi">>),
             FortielUseNode(f, 2, <<".", ".", "self.fi">>),
             FortielUseNode(f, 3, <<".", ".", ".", "self.fi">>)>>
      [] OTHER -> <<>>

(***************************************************************************)
(* The executor.  Its state st is the record                               *)
(*   scope     FortielExecutor._scope                                      *)
(*   macros    FortielExecutor._macros                                     *)
(*   imported  FortielExecutor._imported_files_paths                       *)
(*   fmt       FortielOptions.line_marker_format                           *)
(*   out       the lines pushed to the sink of the run                     *)
(*   opened    the files opened and parsed by Use nodes, in order          *)
(*   lets      the names bound by a let directive and not deleted by a     *)
(*             del directive since, with the values that let gave them     *)
(*   nesting   the number of executions of imported trees by                *)
(*             _execute_use_node that are under way                         *)
(*   deepest   the greatest value that nesting has had                      *)
(*   err       the exception in flight                                     *)
(* A print function is [null, indents]: null for `lambda _: None`, and     *)
(* indents the spaces_before of the enclosing calls, innermost first.      *)
(***************************************************************************)
MainPrint == [null |-> FALSE, indents |-> <<>>]
NullPrint == [null |-> TRUE, indents |-> <<>>]

\* FortielOptions.include_paths
IncludePaths == <<>>

\* _spaced_print_func of one call
SpacedLine(line, spaces_before) ==
    IF StartsWith(LStrip(line), <<"#">>) THEN line ELSE spaces_before \o line

RECURSIVE ApplyIndents(_, _)
ApplyIndents(line, indents) ==
    IF indents = <<>> THEN line
    ELSE ApplyIndents(SpacedLine(line, Head(indents)), Tail(indents))

PrintFunc(line, st, pf) ==
    IF pf.null THEN st ELSE [st EXCEPT !.out = Append(@, ApplyIndents(line, pf.indents))]

Raise(st, e) == [st EXCEPT !.err = e]

Failed(st) == st.err.kind # "none"

\* The line markers of execute_tree and _execute_line_list_node.
LineMarker(fmt, line_number, file_path) ==
    (IF fmt = "fpp" THEN <<"#", " ">> ELSE <<"#", "line", " ">>)
        \o <<ToString(line_number), " ", "\"">> \o PathText(file_path) \o <<"\"">>

PrimaryLineMarker(fmt, file_path) == LineMarker(fmt, 1, file_path) \o <<" ", "1">>

EmitMarker(marker, st, pf) == IF st.fmt \in {"fpp", "cpp"} THEN PrintFunc(marker, st, pf) ELSE st

\* The elements that iterating a value yields.
IsIterable(val) == val.t \in {"list", "tuple", "str"}
Elements(val) ==
    IF val.t = "str" THEN [k \in 1..Len(val.s) |-> StrV(<<val.s[k]>>)] ELSE val.e

RECURSIVE ExecuteNodeListFrom(_, _, _, _)
RECURSIVE ExecuteNode(_, _, _)
RECURSIVE ExecuteCallNode(_, _, _)
RECURSIVE ExecuteUseNode(_, _, _)
RECURSIVE ExecuteDoNode(_, _, _)
RECURSIVE ExecuteIfNode(_, _, _)
RECURSIVE ElifLoop(_, _, _, _)
RECURSIVE ExecuteForNode(_, _, _)
RECURSIVE ExecutePatternListFrom(_, _, _, _, _)
RECURSIVE DoLoop(_, _, _, _)
RECURSIVE ForLoop(_, _, _, _)
RECURSIVE CallSectionsLoop(_, _, _, _, _, _, _)
RECURSIVE ResolveCallSegment(_, _, _)
RECURSIVE ResolveLoop(_, _, _, _)

\* _execute_node_list
ExecuteNodeList(nodes, st, pf) == ExecuteNodeListFrom(1, nodes, st, pf)

\* execute_tree
ExecuteTree(file_path, root_nodes, st, pf) ==
    ExecuteNodeList(root_nodes, EmitMarker(PrimaryLineMarker(st.fmt, file_path), st, pf), pf)

\* _execute_line_list_node: the lines from position k on.
RECURSIVE PrintLinesFrom(_, _, _, _)
PrintLinesFrom(k, node, st, pf) ==
    IF k > Len(node.lines) THEN st
    ELSE LET Printed(r) ==
                 IF r.err.kind # "none" THEN [st EXCEPT !.scope = r.scope, !.err = r.err]
                 ELSE PrintLinesFrom(k + 1, node,
                                     PrintFunc(r.line, [st EXCEPT !.scope = r.scope], pf), pf)
         IN  Printed(EvaluateLine(node.lines[k], st.scope, node.file_path,
                                  node.line_number + k - 1))

ExecuteLineListNode(node, st, pf) ==
    PrintLinesFrom(1, node,
        EmitMarker(LineMarker(st.fmt, node.line_number, node.file_path), st, pf), pf)

\* _execute_let_node without its test for the builtin names.
ExecuteLetNodeAnyName(node, st) ==
    LET expression == IF node.arguments.some
                      THEN Lit(FuncV(node.arguments.list, node.value_expression))
                      ELSE node.value_expression
        Bound(r) ==
            IF r.err.kind # "none" THEN [st EXCEPT !.scope = r.scope, !.err = r.err]
            ELSE [st EXCEPT !.scope = Put(r.scope, node.name, r.val),
                            !.lets = Put(@, node.name, r.val)]
    IN  Bound(EvaluateExpression(expression, st.scope, node.file_path, node.line_number))

\* _execute_let_node
ExecuteLetNode(node, st) ==
    IF node.name \in _FORTIEL_BUILTINS_NAMES
    THEN Raise(st, FortielRuntimeError("builtin name can not be redefined",
                                       node.file_path, node.line_number))
    ELSE LET expression == IF node.arguments.some
                           THEN Lit(FuncV(node.arguments.list, node.value_expression))
                           ELSE node.value_expression
             Bound(r) ==
                 IF r.err.kind # "none" THEN [st EXCEPT !.scope = r.scope, !.err = r.err]
                 ELSE [st EXCEPT !.scope = Put(r.scope, node.name, r.val),
                                 !.lets = Put(@, node.name, r.val)]
         IN  Bound(EvaluateExpression(expression, st.scope, node.file_path, node.line_number))

\* _execute_del_node: the names from position k on.
RECURSIVE DelNamesFrom(_, _, _)
DelNamesFrom(k, node, st) ==
    IF k > Len(node.names) THEN st
    ELSE LET name == node.names[k]
         IN  IF name \notin DOMAIN st.scope
             THEN Raise(st, FortielRuntimeError("name was not previously defined",
                                                node.file_path, node.line_number))
             ELSE IF name \in _FORTIEL_BUILTINS_NAMES
             THEN Raise(st, FortielRuntimeError("builtin name can not be undefined",
                                                node.file_path, node.line_number))
             ELSE DelNamesFrom(k + 1, node, [st EXCEPT !.scope = Remove(@, name),
                                                       !.lets = Remove(@, name)])

ExecuteDelNode(node, st) == DelNamesFrom(1, node, st)

\* The body of the `for index in ranges` loop of _execute_do_node.
DoLoop(ranges, node, st, pf) ==
    IF Failed(st) \/ ranges = <<>> THEN st
    ELSE LET index == IntV(Head(ranges))
             s1 == [st EXCEPT !.scope = Put(Put(@, "__LOOP_INDEX__", index),
                                            node.index_name, index)]
         IN  DoLoop(Tail(ranges), node, ExecuteNodeList(node.loop_nodes, s1, pf), pf)

\* The `for elif_node in node.elif_nodes` loop of _execute_if_node with its
\* else clause; the conditions are evaluated at the place of the If node.
ElifLoop(k, node, st, pf) ==
    IF k > Len(node.elif_nodes) THEN ExecuteNodeList(node.else_nodes, st, pf)
    ELSE LET Branch(r) ==
                 IF r.err.kind # "none" THEN [st EXCEPT !.scope = r.scope, !.err = r.err]
                 ELSE IF Truthy(r.val)
                 THEN ExecuteNodeList(node.elif_nodes[k].then_nodes,
                                      [st EXCEPT !.scope = r.scope], pf)
                 ELSE ElifLoop(k + 1, node, [st EXCEPT !.scope = r.scope], pf)
         IN  Branch(EvaluateExpression(node.elif_nodes[k].condition_expression, st.scope,
                                       node.file_path, node.line_number))

\* _execute_if_node
ExecuteIfNode(node, st, pf) ==
    LET Branch(r) ==
            IF r.err.kind # "none" THEN [st EXCEPT !.scope = r.scope, !.err = r.err]
            ELSE IF Truthy(r.val)
            THEN ExecuteNodeList(node.then_nodes, [st EXCEPT !.scope = r.scope], pf)
            ELSE ElifLoop(1, node, [st EXCEPT !.scope = r.scope], pf)
    IN  Branch(EvaluateExpression(node.condition_expression, st.scope,
                                  node.file_path, node.line_number))

\* _execute_do_node
ExecuteDoNode(node, st, pf) ==
    LET Ranged(r) ==
            IF r.err.kind # "none" THEN [st EXCEPT !.scope = r.scope, !.err = r.err]
            ELSE IF Len(r.range) = 0 THEN [st EXCEPT !.scope = r.scope]
            ELSE LET Restored(s1) ==
                         IF Failed(s1) THEN s1
                         ELSE IF node.index_name \notin DOMAIN s1.scope
                         THEN Raise(s1, PyError("KeyError"))
                         ELSE [s1 EXCEPT !.scope = Put(Remove(@, node.index_name),
                                                       "__LOOP_INDEX__", LoopIndex(r.scope))]
                 IN  Restored(DoLoop(r.range, node, [st EXCEPT !.scope = r.scope], pf))
    IN  Ranged(EvaluateRangesExpression(node.ranges_expression, st.scope,
                                        node.file_path, node.line_number))

\* zip(node.index_names, index_values) assigned to the scope.
RECURSIVE BindZip(_, _, _)
BindZip(index_names, index_values, scope) ==
    IF index_names = <<>> \/ index_values = <<>> THEN scope
    ELSE BindZip(Tail(index_names), Tail(index_values),
                 Put(scope, Head(index_names), Head(index_values)))

\* The body of the `for index_values in iterable` loop of _execute_for_node.
ForLoop(iterable, node, st, pf) ==
    IF Failed(st) \/ iterable = <<>> THEN st
    ELSE LET index_values == Head(iterable)
         IN  IF Len(node.index_names) = 1
             THEN ForLoop(Tail(iterable), node,
                      ExecuteNodeList(node.loop_nodes,
                          [st EXCEPT !.scope = Put(@, node.index_names[1], index_values)],
                          pf), pf)
             ELSE IF ~IsIterable(index_values) THEN Raise(st, PyError("TypeError"))
             ELSE ForLoop(Tail(iterable), node,
                      ExecuteNodeList(node.loop_nodes,
                          [st EXCEPT !.scope = BindZip(node.index_names,
                                                       Elements(index_values), @)],
                          pf), pf)

\* The `del self._scope[index_name]` loop that ends _execute_for_node.
RECURSIVE DelIndexNames(_, _)
DelIndexNames(index_names, st) ==
    IF index_names = <<>> THEN st
    ELSE IF Head(index_names) \notin DOMAIN st.scope THEN Raise(st, PyError("KeyError"))
    ELSE DelIndexNames(Tail(index_names), [st EXCEPT !.scope = Remove(@, Head(index_names))])

\* _execute_for_node
ExecuteForNode(node, st, pf) ==
    LET Deleted(s1) == IF Failed(s1) THEN s1 ELSE DelIndexNames(node.index_names, s1)
        Iterated(r) ==
            IF r.err.kind # "none" THEN [st EXCEPT !.scope = r.scope, !.err = r.err]
            ELSE IF ~IsIterable(r.val)
            THEN [st EXCEPT !.scope = r.scope, !.err = PyError("TypeError")]
            ELSE Deleted(ForLoop(Elements(r.val), node, [st EXCEPT !.scope = r.scope], pf))
    IN  Iterated(EvaluateExpression(node.iterable_expression, st.scope,
                                    node.file_path, node.line_number))

\* _execute_macro_node without the search for a duplicate section name.
ExecuteMacroNodeKeepingDuplicates(node, st) ==
    IF node.name \in DOMAIN st.macros
    THEN Raise(st, FortielRuntimeError("macro is already defined",
                                       node.file_path, node.line_number))
    ELSE IF Len(node.section_nodes) > 0 /\ node.name \in SectionNames(node)
    THEN Raise(st, FortielRuntimeError("section name cannot be the same with macro name",
                                       node.file_path, node.line_number))
    ELSE [st EXCEPT !.macros = Put(@, node.name, node)]

\* _execute_macro_node
ExecuteMacroNode(node, st) ==
    LET section_names == [k \in 1..Len(node.section_nodes) |-> node.section_nodes[k].name]
    IN  IF node.name \in DOMAIN st.macros
        THEN Raise(st, FortielRuntimeError("macro is already defined",
                                           node.file_path, node.line_number))
        ELSE IF Len(node.section_nodes) > 0 /\ node.name \in SectionNames(node)
        THEN Raise(st, FortielRuntimeError("section name cannot be the same with macro name",
                                           node.file_path, node.line_number))
        ELSE IF Len(node.section_nodes) > 0 /\ HasDuplicate(section_names)
        THEN Raise(st, FortielRuntimeError("duplicate section of the macro construct",
                                           node.file_path, node.line_number))
        ELSE [st EXCEPT !.macros = Put(@, node.name, node)]

\* _execute_use_node that hands the print function of the caller to
\* execute_tree instead of `lambda _: None`.
ExecuteUseNodePrinting(node, st, pf) ==
    LET node_dir_path == DirName(node.file_path)
        found == FindFile(node.imported_file_path, Append(IncludePaths, node_dir_path))
        imported_file_path == found.path
    IN  IF ~found.found
        THEN Raise(st, FortielRuntimeError("was not found in the include paths",
                                           node.file_path, node.line_number))
        ELSE IF imported_file_path \in st.imported THEN st
        ELSE LET Returned(s) == IF Failed(s) THEN s ELSE [s EXCEPT !.nesting = st.nesting]
             IN  Returned(ExecuteTree(node.imported_file_path,
                     FileTree(RealFile(imported_file_path), node.imported_file_path),
                     [st EXCEPT !.imported = @ \cup {imported_file_path},
                                !.opened = Append(@, RealFile(imported_file_path)),
                                !.nesting = @ + 1,
                                !.deepest = IF st.nesting + 1 > @ THEN st.nesting + 1 ELSE @],
                     pf))

\* _execute_use_node: the print function of the caller is not used.
ExecuteUseNode(node, st, pf) ==
    LET node_dir_path == DirName(node.file_path)
        found == FindFile(node.imported_file_path, Append(IncludePaths, node_dir_path))
        imported_file_path == found.path
    IN  IF ~found.found
        THEN Raise(st, FortielRuntimeError("was not found in the include paths",
                                           node.file_path, node.line_number))
        ELSE IF imported_file_path \in st.imported THEN st
        ELSE LET Returned(s) == IF Failed(s) THEN s ELSE [s EXCEPT !.nesting = st.nesting]
             IN  Returned(ExecuteTree(node.imported_file_path,
                     FileTree(RealFile(imported_file_path), node.imported_file_path),
                     [st EXCEPT !.imported = @ \cup {imported_file_path},
                                !.opened = Append(@, RealFile(imported_file_path)),
                                !.nesting = @ + 1,
                                !.deepest = IF st.nesting + 1 > @ THEN st.nesting + 1 ELSE @],
                     NullPrint))

\* 'end' + node.name, for the macro names of the model.
EndName(name) ==
    CASE name = "m" -> "endm" [] name = "mm" -> "endmm" [] name = "c" -> "endc"
      [] name = "d" -> "endd"
      [] OTHER -> "end"

RemoveAt(nodes, k) == SubSeq(nodes, 1, k - 1) \o SubSeq(nodes, k + 1, Len(nodes))

\* The loop of _resolve_call_segment with every captured node appended to
\* the captured nodes of the call, also after a section has started.
ResolveLoopCapturingInCall(index, nodes, macros, node) ==
    LET next_index == index + 1
        macro_node == macros[node.name]
    IN  IF ~(Len(nodes) > next_index - 1)
        THEN [nodes |-> [nodes EXCEPT ![index] = node],
              err |-> FortielRuntimeError("expected end call segment",
                                          node.file_path, node.line_number)]
        ELSE LET next_node == nodes[next_index]
             IN  IF next_node.type = "CallSegment" /\ next_node.name = EndName(node.name)
                 THEN [nodes |-> RemoveAt([nodes EXCEPT ![index] = node], next_index),
                       err |-> NoErr]
                 ELSE IF next_node.type = "CallSegment"
                         /\ next_node.name \in SectionNames(macro_node)
                 THEN ResolveLoop(index, RemoveAt(nodes, next_index), macros,
                          [node EXCEPT !.call_section_nodes =
                               Append(@, FortielCallSectionNode(next_node))])
                 ELSE LET Captured(r) ==
                              IF r.err.kind # "none"
                              THEN [nodes |-> [r.nodes EXCEPT ![index] = node], err |-> r.err]
                              ELSE ResolveLoop(index, RemoveAt(r.nodes, next_index), macros,
                                       [node EXCEPT !.captured_nodes =
                                            Append(@, r.nodes[next_index])])
                      IN  Captured(IF next_node.type = "CallSegment"
                                   THEN ResolveCallSegment(next_index, nodes, macros)
                                   ELSE [nodes |-> nodes, err |-> NoErr])

\* The `while len(nodes) > next_index` loop of _resolve_call_segment; node is
\* the call node under construction, stored at nodes[index] when the loop ends.
ResolveLoop(index, nodes, macros, node) ==
    LET next_index == index + 1
        macro_node == macros[node.name]
    IN  IF ~(Len(nodes) > next_index - 1)
        THEN [nodes |-> [nodes EXCEPT ![index] = node],
              err |-> FortielRuntimeError("expected end call segment",
                                          node.file_path, node.line_number)]
        ELSE LET next_node == nodes[next_index]
             IN  IF next_node.type = "CallSegment" /\ next_node.name = EndName(node.name)
                 THEN [nodes |-> RemoveAt([nodes EXCEPT ![index] = node], next_index),
                       err |-> NoErr]
                 ELSE IF next_node.type = "CallSegment"
                         /\ next_node.name \in SectionNames(macro_node)
                 THEN ResolveLoop(index, RemoveAt(nodes, next_index), macros,
                          [node EXCEPT !.call_section_nodes =
                               Append(@, FortielCallSectionNode(next_node))])
                 ELSE LET n == Len(node.call_section_nodes)
                          Captured(r) ==
                              IF r.err.kind # "none"
                              THEN [nodes |-> [r.nodes EXCEPT ![index] = node], err |-> r.err]
                              ELSE ResolveLoop(index, RemoveAt(r.nodes, next_index), macros,
                                       IF n = 0
                                       THEN [node EXCEPT !.captured_nodes =
                                                 Append(@, r.nodes[next_index])]
                                       ELSE [node EXCEPT
                                                 !.call_section_nodes[n].captured_nodes =
                                                     Append(@, r.nodes[next_index])])
                      IN  Captured(IF next_node.type = "CallSegment"
                                   THEN ResolveCallSegment(next_index, nodes, macros)
                                   ELSE [nodes |-> nodes, err |-> NoErr])

\* _resolve_call_segment: returns the node list after the in-place update.
ResolveCallSegment(index, nodes, macros) ==
    LET node == nodes[index]
    IN  IF node.name \notin DOMAIN macros
        THEN [nodes |-> nodes,
              err |-> FortielRuntimeError("macro was not previously defined",
                                          node.file_path, node.line_number)]
        ELSE IF IsConstruct(macros[node.name])
        THEN ResolveLoop(index, nodes, macros, FortielCallNode(node))
        ELSE [nodes |-> [nodes EXCEPT ![index] = FortielCallNode(node)], err |-> NoErr]

\* _execute_pattern_list_node: the patterns from position k on.
ExecutePatternListFrom(k, node, macro_node, st, pf) ==
    IF k > Len(macro_node.pattern_nodes)
    THEN Raise(st, FortielRuntimeError("macro call does not match any pattern",
                                       node.file_path, node.line_number))
    ELSE LET pattern_node == macro_node.pattern_nodes[k]
             match == MatchPattern(pattern_node.pattern, node.argument)
         IN  IF match.ok
             THEN ExecuteNodeList(pattern_node.match_nodes,
                      [st EXCEPT !.scope = Merge(@, match.groupdict)], pf)
             ELSE ExecutePatternListFrom(k + 1, node, macro_node, st, pf)

ExecutePatternListNode(node, macro_node, st, pf) ==
    ExecutePatternListFrom(1, node, macro_node, st, pf)

\* The section iterator advanced to the first section from j on named name.
RECURSIVE FindSection(_, _, _)
FindSection(section_nodes, j, name) ==
    IF j <= Len(section_nodes) /\ section_nodes[j].name # name
    THEN FindSection(section_nodes, j + 1, name) ELSE j

\* The loop of _execute_call_node with a section iterator that stays on a
\* section with the `once` attribute.
CallSectionsLoopNeverAdvancing(k, j, node, macro_node, st, pf, spaced) ==
    IF Failed(st) \/ k > Len(node.call_section_nodes) THEN st
    ELSE LET call_section_node == node.call_section_nodes[k]
             j1 == FindSection(macro_node.section_nodes, j, call_section_node.name)
         IN  IF j1 > Len(macro_node.section_nodes)
             THEN Raise(st, FortielRuntimeError("unexpected call section",
                                                call_section_node.file_path,
                                                call_section_node.line_number))
             ELSE LET section_node == macro_node.section_nodes[j1]
                      s1 == ExecutePatternListNode(call_section_node, section_node, st, spaced)
                      s2 == ExecuteNodeList(call_section_node.captured_nodes, s1, pf)
                  IN  CallSectionsLoop(k + 1, j1, node, macro_node, s2, pf, spaced)

\* The loop of _execute_call_node with a section iterator that starts again
\* at the first section for every call section.
CallSectionsLoopRestarting(k, j, node, macro_node, st, pf, spaced) ==
    IF Failed(st) \/ k > Len(node.call_section_nodes) THEN st
    ELSE LET call_section_node == node.call_section_nodes[k]
             j1 == FindSection(macro_node.section_nodes, 1, call_section_node.name)
         IN  IF j1 > Len(macro_node.section_nodes)
             THEN Raise(st, FortielRuntimeError("unexpected call section",
                                                call_section_node.file_path,
                                                call_section_node.line_number))
             ELSE LET section_node == macro_node.section_nodes[j1]
                      s1 == ExecutePatternListNode(call_section_node, section_node, st, spaced)
                      s2 == ExecuteNodeList(call_section_node.captured_nodes, s1, pf)
                  IN  CallSectionsLoop(k + 1, IF section_node.once THEN j1 + 1 ELSE j1,
                                       node, macro_node, s2, pf, spaced)

\* The `for call_section_node in node.call_section_nodes` loop of
\* _execute_call_node; j is the position of the section iterator.
CallSectionsLoop(k, j, node, macro_node, st, pf, spaced) ==
    IF Failed(st) \/ k > Len(node.call_section_nodes) THEN st
    ELSE LET call_section_node == node.call_section_nodes[k]
             j1 == FindSection(macro_node.section_nodes, j, call_section_node.name)
         IN  IF j1 > Len(macro_node.section_nodes)
             THEN Raise(st, FortielRuntimeError("unexpected call section",
                                                call_section_node.file_path,
                                                call_section_node.line_number))
             ELSE LET section_node == macro_node.section_nodes[j1]
                      s1 == ExecutePatternListNode(call_section_node, section_node, st, spaced)
                      s2 == ExecuteNodeList(call_section_node.captured_nodes, s1, pf)
                  IN  CallSectionsLoop(k + 1, IF section_node.once THEN j1 + 1 ELSE j1,
                                       node, macro_node, s2, pf, spaced)

\* _execute_call_node with the finally section executed before the call
\* sections.
ExecuteCallNodeFinallyFirst(node, st, pf) ==
    LET spaced == [pf EXCEPT !.indents = <<node.spaces_before>> \o @]
        macro_node == st.macros[node.name]
        Sections(s1) ==
            IF ~IsConstruct(macro_node) THEN s1
            ELSE LET s2 == ExecuteNodeList(node.captured_nodes, s1, pf)
                     s3 == ExecuteNodeList(macro_node.finally_nodes, s2, spaced)
                 IN  CallSectionsLoop(1, 1, node, macro_node, s3, pf, spaced)
    IN  IF Failed(st) THEN st
        ELSE Sections(ExecutePatternListNode(node, macro_node, st, spaced))

\* _execute_call_node
ExecuteCallNode(node, st, pf) ==
    LET spaced == [pf EXCEPT !.indents = <<node.spaces_before>> \o @]
        macro_node == st.macros[node.name]
        Sections(s1) ==
            IF ~IsConstruct(macro_node) THEN s1
            ELSE LET s2 == ExecuteNodeList(node.captured_nodes, s1, pf)
                     s3 == CallSectionsLoop(1, 1, node, macro_node, s2, pf, spaced)
                 IN  ExecuteNodeList(macro_node.finally_nodes, s3, spaced)
    IN  IF Failed(st) THEN st
        ELSE Sections(ExecutePatternListNode(node, macro_node, st, spaced))

\* _execute_node
ExecuteNode(node, st, pf) ==
    IF Failed(st) THEN st
    ELSE CASE node.type = "Use" -> ExecuteUseNode(node, st, pf)
           [] node.type = "Let" -> ExecuteLetNode(node, st)
           [] node.type = "Del" -> ExecuteDelNode(node, st)
           [] node.type = "If" -> ExecuteIfNode(node, st, pf)
           [] node.type = "Do" -> ExecuteDoNode(node, st, pf)
           [] node.type = "For" -> ExecuteForNode(node, st, pf)
           [] node.type = "Macro" -> ExecuteMacroNode(node, st)
           [] node.type = "Call" -> ExecuteCallNode(node, st, pf)
           [] node.type = "LineList" -> ExecuteLineListNode(node, st, pf)
           [] OTHER -> Raise(st, PyError("RuntimeError"))

\* The `while index < len(nodes)` loop of _execute_node_list.
ExecuteNodeListFrom(index, nodes, st, pf) ==
    IF Failed(st) \/ index > Len(nodes) THEN st
    ELSE IF nodes[index].type = "CallSegment"
    THEN LET Called(r) ==
                 IF r.err.kind # "none" THEN Raise(st, r.err)
                 ELSE ExecuteNodeListFrom(index + 1, r.nodes,
                                          ExecuteCallNode(r.nodes[index], st, pf), pf)
         IN  Called(ResolveCallSegment(index, nodes, st.macros))
    ELSE ExecuteNodeListFrom(index + 1, nodes, ExecuteNode(nodes[index], st, pf), pf)

(***************************************************************************)
(* The parser, FortielParser.  Its state ps is the record                  *)
(*   file_path, lines, line, multiline, line_index, line_number            *)
(*               the fields of the same names                              *)
(*   first_line  the number of the first physical line of the current      *)
(*               logical line                                              *)
(*   nodes       tree.root_nodes                                           *)
(*   starts      for each root node, first_line when it was created        *)
(*   err         the exception in flight                                   *)
(* The directive lines of the model have the heads `let` (value form) and  *)
(* `del`, in either letter case.                                           *)
(***************************************************************************)
\* FortielParser.__init__: an empty list of lines has no lines[0].
InitParser(file_path, lines) ==
    [file_path |-> file_path, lines |-> lines,
     line |-> IF lines = <<>> THEN <<>> ELSE lines[1],
     multiline |-> IF lines = <<>> THEN <<>> ELSE lines[1],
     line_index |-> 0, line_number |-> 1, first_line |-> 1,
     nodes |-> <<>>, starts |-> <<>>,
     err |-> IF lines = <<>> THEN PyError("IndexError") ELSE NoErr]

\* _matches_end
MatchesEnd(ps) == ps.line_index >= Len(ps.lines)

\* The `while self._line.endswith('&')` loop of _advance_line.
RECURSIVE ContinueLine(_)
ContinueLine(ps) ==
    IF ~EndsWith(ps.line, <<"&">>) THEN ps
    ELSE LET p1 == [ps EXCEPT !.line_index = @ + 1, !.line_number = @ + 1]
         IN  IF MatchesEnd(p1)
             THEN [p1 EXCEPT !.err =
                       FortielSyntaxError("unexpected end of file in continuation lines",
                                          p1.file_path, p1.line_number)]
             ELSE LET next_line == RStrip(p1.lines[p1.line_index + 1])
                      stripped == LStrip(next_line)
                      next_line2 == IF StartsWith(stripped, <<"&">>)
                                    THEN LStrip(RemovePrefix(stripped, <<"&">>))
                                    ELSE stripped
                  IN  ContinueLine([p1 EXCEPT
                          !.multiline = @ \o <<"\n">> \o next_line,
                          !.line = RStrip(RemoveSuffix(@, <<"&">>)) \o <<" ">> \o next_line2])

\* _advance_line
AdvanceLine(ps) ==
    LET p1 == [ps EXCEPT !.line_index = @ + 1, !.line_number = @ + 1]
    IN  IF MatchesEnd(p1) THEN [p1 EXCEPT !.line = <<>>, !.multiline = <<>>]
        ELSE ContinueLine([p1 EXCEPT !.line = RStrip(p1.lines[p1.line_index + 1]),
                                     !.multiline = RStrip(p1.lines[p1.line_index + 1]),
                                     !.first_line = p1.line_index + 1])

\* Identifiers [A-Z_]\w* and macro names [A-Z]\w* among the word chunks.
IsIdentifier(c) == IsWord(c) /\ c \notin DOMAIN DigitVal
IsMacroName(c) ==
    IsIdentifier(c) /\ c \notin {"__FILE__", "__LINE__", "__INDEX__", "__DATE__", "__TIME__"}

\* str.lower() of a word chunk.
Lower(c) == CASE c = "A" -> "a" [] c = "M" -> "m" [] c = "LET" -> "let" [] OTHER -> c

\* _make_name, for a name of one chunk (a word holds no whitespace).
MakeName(name) == Lower(name)

\* _FORTIEL_DIRECTIVE matched against a line.
MatchDirective(line) ==
    LET p == SkipSpaces(line, 1)
    IN  IF p + 1 <= Len(line) /\ line[p] = "#" /\ line[p + 1] \in {"@", "$"}
        THEN [ok |-> TRUE, directive |-> SubSeq(line, SkipSpaces(line, p + 2), Len(line))]
        ELSE [ok |-> FALSE, directive |-> <<>>]

\* The position of the first "!" chunk of s from p on, or Len(s) + 1.
RECURSIVE FindBang(_, _)
FindBang(s, p) == IF p <= Len(s) /\ s[p] # "!" THEN FindBang(s, p + 1) ELSE p

\* _FORTIEL_CALL matched against a line, for a name of one chunk.
MatchCall(line) ==
    LET p == SkipSpaces(line, 1)
    IN  IF p + 1 <= Len(line) /\ line[p] = "@" /\ IsMacroName(line[p + 1])
        THEN [ok |-> TRUE, spaces |-> SubSeq(line, 1, p - 1), name |-> line[p + 1],
              argument |-> SubSeq(line, p + 2, FindBang(line, p + 2) - 1)]
        ELSE [ok |-> FALSE, spaces |-> <<>>, name |-> "", argument |-> <<>>]

\* The position of the first " " chunk of s from p on, or Len(s) + 1.
RECURSIVE FindBlank(_, _)
FindBlank(s, p) == IF p <= Len(s) /\ s[p] # " " THEN FindBlank(s, p + 1) ELSE p

\* _parse_head: the chunks of the head, <<>> for None.
ParseHead(directive) ==
    LET p == FindBlank(directive, 1)
        q == FindBlank(directive, p + 1)
        head == [k \in 1..(p - 1) |-> Lower(directive[k])]
        second_word == [k \in 1..(q - p - 1) |-> Lower(directive[p + k])]
    IN  IF directive = <<>> THEN <<>>
        ELSE IF p <= Len(directive)
                /\ (head = <<"end">> \/ (head = <<"else">> /\ second_word = <<"if">>))
        THEN head \o second_word
        ELSE head

\* The list  name (\s* , \s* name)*  that ends the text s at position p.
RECURSIVE MatchNames(_, _, _)
MatchNames(s, p, names) ==
    IF ~(p <= Len(s) /\ IsIdentifier(s[p])) THEN [ok |-> FALSE, names |-> <<>>]
    ELSE LET q == SkipSpaces(s, p + 1)
         IN  IF p = Len(s) THEN [ok |-> TRUE, names |-> Append(names, s[p])]
             ELSE IF q <= Len(s) /\ s[q] = ","
             THEN MatchNames(s, SkipSpaces(s, q + 1), Append(names, s[p]))
             ELSE [ok |-> FALSE, names |-> <<>>]

\* _FORTIEL_DEL matched against a directive; names is the group split on
\* `,` and stripped.
MatchDel(directive) ==
    IF Len(directive) >= 2 /\ Lower(directive[1]) = "del" /\ IsSpace(directive[2])
    THEN MatchNames(directive, SkipSpaces(directive, 2), <<>>)
    ELSE [ok |-> FALSE, names |-> <<>>]

\* _FORTIEL_LET matched against a directive without an argument list.
MatchLet(directive) ==
    LET p == SkipSpaces(directive, 2)
        q == SkipSpaces(directive, p + 1)
    IN  IF Len(directive) >= 2 /\ Lower(directive[1]) = "let" /\ IsSpace(directive[2])
           /\ p <= Len(directive) /\ IsIdentifier(directive[p])
           /\ q <= Len(directive) /\ directive[q] = "="
        THEN [ok |-> TRUE, name |-> directive[p],
              value_expression |-> SubSeq(directive, SkipSpaces(directive, q + 1),
                                          Len(directive))]
        ELSE [ok |-> FALSE, name |-> "", value_expression |-> <<>>]

SyntaxErrorAt(ps, msg) ==
    [ps EXCEPT !.err = FortielSyntaxError(msg, ps.file_path, ps.line_number)]

\* A root node appended to the tree, unless an exception is in flight.
AddNode(ps, node, first_line) ==
    IF ps.err.kind # "none" THEN ps
    ELSE [ps EXCEPT !.nodes = Append(@, node), !.starts = Append(@, first_line)]

\* _parse_let_directive: the node takes the line number before
\* _match_directive_syntax advances.
ParseLetDirective(ps) ==
    LET match == MatchLet(RStrip(MatchDirective(ps.line).directive))
    IN  IF ~match.ok THEN SyntaxErrorAt(ps, "invalid directive syntax")
        ELSE AddNode(AdvanceLine(ps),
                     FortielLetNode(ps.file_path, ps.line_number, match.name, NoArguments,
                                    Text(match.value_expression)),
                     ps.first_line)

\* _parse_del_directive
ParseDelDirective(ps) ==
    LET match == MatchDel(RStrip(MatchDirective(ps.line).directive))
    IN  IF ~match.ok THEN SyntaxErrorAt(ps, "invalid directive syntax")
        ELSE AddNode(AdvanceLine(ps),
                     FortielDelNode(ps.file_path, ps.line_number, match.names),
                     ps.first_line)

\* _parse_directive
ParseDirective(ps) ==
    LET head == ParseHead(MatchDirective(ps.line).directive)
    IN  IF head = <<>> THEN SyntaxErrorAt(ps, "empty directive")
        ELSE IF head = <<"let">> THEN ParseLetDirective(ps)
        ELSE IF head = <<"del">> THEN ParseDelDirective(ps)
        ELSE SyntaxErrorAt(ps, "unknown or mistyped directive")

\* The node that _parse_ifdef_directive builds from the name of the
\* directive and the statements parsed up to `else` and `end if`.
ParseIfdefDirective(file_path, line_number, name, then_nodes, else_nodes) ==
    FortielIfNode(file_path, line_number, Call("defined", <<name>>), then_nodes, <<>>,
                  else_nodes)

\* The node that _parse_ifndef_directive builds.
ParseIfndefDirective(file_path, line_number, name, then_nodes, else_nodes) ==
    FortielIfNode(file_path, line_number, NotCall("defined", <<name>>), then_nodes, <<>>,
                  else_nodes)

\* _parse_call_segment
ParseCallSegment(ps) ==
    LET match == MatchCall(ps.line)
    IN  AddNode(AdvanceLine(ps),
                FortielCallSegmentNode(ps.file_path, ps.line_number, match.spaces,
                                       MakeName(match.name),
                                       LStrip(RStrip(match.argument))),
                ps.first_line)

\* The `while True` loop of _parse_line_list.
RECURSIVE CollectLines(_, _)
CollectLines(ps, lines) ==
    LET p1 == AdvanceLine(ps)
        collected == Append(lines, ps.multiline)
    IN  IF p1.err.kind # "none" THEN [ps |-> p1, lines |-> collected]
        ELSE IF MatchesEnd(p1) \/ MatchDirective(p1.line).ok \/ MatchCall(p1.line).ok
        THEN [ps |-> p1, lines |-> collected]
        ELSE CollectLines(p1, collected)

\* _parse_line_list
ParseLineList(ps) ==
    LET r == CollectLines(ps, <<>>)
    IN  AddNode(r.ps, FortielLineListNode(ps.file_path, ps.line_number, r.lines),
                ps.first_line)

\* _parse_statement
ParseStatement(ps) ==
    IF MatchDirective(ps.line).ok THEN ParseDirective(ps)
    ELSE IF MatchCall(ps.line).ok THEN ParseCallSegment(ps)
    ELSE ParseLineList(ps)

\* parse(): the `while not self._matches_end()` loop.
RECURSIVE ParseLoop(_)
ParseLoop(ps) ==
    IF ps.err.kind # "none" \/ MatchesEnd(ps) THEN ps ELSE ParseLoop(ParseStatement(ps))

Parse(file_path, lines) == ParseLoop(InitParser(file_path, lines))

(***************************************************************************)
(* The run of the executor over the main file.  The root nodes of the      *)
(* main file are drawn one sibling group at a time: pc counts the groups   *)
(* executed so far and last is the group executed by the last step.        *)
(***************************************************************************)
VARIABLES scope, macros, imported_files_paths, line_marker_format, out, opened, lets,
          deepest, err, pc, last

\* The parser's fields, the error it raised, and the phase of the run:
\* "parse", then "execute", then "done".
VARIABLES lines, line, multiline, line_index, line_number, first_line, root_nodes,
          starts, perr, phase

\* The compiler wrapper, gfortiel.main: the input files and the number of
\* them preprocessed so far, the local variables exit_code and
\* output_file_paths, the preprocessed files that exist on disk, the
\* position in main ("idle" when the wrapper is not run), the exit status
\* of the process (-1 while it runs), the exit status of gfortran (-1 when
\* it was not run) and whether the preprocessing of some input failed.
VARIABLES file_paths, file_index, exit_code, output_file_paths, temp_files, wpc,
          exit_status, gfortran, failed

wrapVars == <<file_paths, file_index, exit_code, output_file_paths, temp_files, wpc,
              exit_status, gfortran, failed>>

parseVars == <<lines, line, multiline, line_index, line_number, first_line, root_nodes,
               starts, perr, phase>>

execVars == <<scope, macros, imported_files_paths, line_marker_format, out, opened, lets,
              deepest, err, pc, last>>

MainFile == <<"main.x">>

\* The executor state as the record that the operators above work on.
St == [scope |-> scope, macros |-> macros, imported |-> imported_files_paths,
       fmt |-> line_marker_format, out |-> out, opened |-> opened, lets |-> lets,
       nesting |-> 0, deepest |-> deepest, err |-> err]

\* _execute_node_list applied to the next sibling group of the main file.
Run(nodes) ==
    /\ phase = "execute"
    /\ err.kind = "none"
    /\ pc < MaxNodes
    /\ \E s \in {ExecuteNodeList(nodes, St, MainPrint)} :
           /\ scope' = s.scope
           /\ macros' = s.macros
           /\ imported_files_paths' = s.imported
           /\ out' = s.out
           /\ opened' = s.opened
           /\ lets' = s.lets
           /\ deepest' = s.deepest
           /\ err' = s.err
    /\ pc' = pc + 1
    /\ last' = nodes
    /\ UNCHANGED <<line_marker_format, parseVars, wrapVars>>

(***************************************************************************)
(* The inputs: the nodes that the main file may contain at line n.         *)
(***************************************************************************)
LetNodes(n) ==
    {FortielLetNode(MainFile, n, name, NoArguments, e) :
         name \in {"a", "i", "__FILE__", "__INDEX__"},
         e \in {Lit(IntV(1)), Lit(IntV(2)), Ref("a")}}
    \cup {FortielLetNode(MainFile, n, name, [some |-> TRUE, list |-> <<"x">>], Ref("x")) :
              name \in {"a", "__LINE__", "defined"}}
    \cup {FortielLetNode(MainFile, n, "__LOOP_INDEX__", NoArguments, Lit(IntV(2)))}

DelNodes(n) ==
    {FortielDelNode(MainFile, n, names) :
         names \in {<<"a">>, <<"i">>, <<"a", "i">>, <<"__FILE__">>, <<"a", "__LINE__">>,
                    <<"__INDEX__">>}}

\* The ranges expression of a (start, stop) or (start, stop, step) tuple.
RangesExpression(t) == Lit(TupV([k \in 1..Len(t) |-> IntV(t[k])]))

\* The loop body that prints a name.
PrintName(n, name) == <<FortielLineListNode(MainFile, n, << <<"$", name>> >>)>>

DoNodes(n) ==
    {FortielDoNode(MainFile, n, name, RangesExpression(t), PrintName(n + 1, name)) :
         name \in {"a", "i"},
         t \in {<<1, 2>>, <<2, 1>>, <<1, 3, 2>>, <<1, 2, 2>>, <<3, 1, -2>>, <<3, 2, -2>>,
                <<1, 1, 0>>}}
    \cup {FortielDoNode(MainFile, n, "i", RangesExpression(<<1, 2>>),
              <<FortielDelNode(MainFile, n + 1, <<"i">>)>>),
          FortielDoNode(MainFile, n, "i", Lit(IntV(1)), PrintName(n + 1, "i")),
          FortielDoNode(MainFile, n, "i", RangesExpression(<<1, 2>>),
              <<FortielLineListNode(MainFile, n + 1,
                                    << <<"$", "i", " ", "$", "__INDEX__">> >>)>>),
          FortielDoNode(MainFile, n, "i", RangesExpression(<<1, 2>>),
              <<FortielUseNode(MainFile, n + 1, <<"lib.fi">>)>>),
          FortielDoNode(MainFile, n, "i", RangesExpression(<<1, 2>>),
              <<FortielDoNode(MainFile, n + 1, "a", RangesExpression(<<1, 1>>),
                    <<FortielLineListNode(MainFile, n + 2, << <<"@", ":">> >>)>>)>>)}

\* #@ ifdef NAME / x / #@ else / y / #@ end if, the same with ifndef, and
\* #@ if 0 / x / #@ else if a / y / #@ else / b / #@ end if
IfNodes(n) ==
    LET Lines(k, l) == <<FortielLineListNode(MainFile, k, <<l>>)>>
    IN  {ParseIfdefDirective(MainFile, n, "a", Lines(n + 1, <<"x">>), Lines(n + 3, <<"y">>)),
         ParseIfndefDirective(MainFile, n, "a", Lines(n + 1, <<"x">>), Lines(n + 3, <<"y">>)),
         FortielIfNode(MainFile, n, Text(<<"0">>), Lines(n + 1, <<"x">>),
                       <<FortielElifNode(MainFile, n + 2, Text(<<"a">>),
                                         Lines(n + 3, <<"y">>))>>,
                       Lines(n + 5, <<"b">>))}

ForNodes(n) ==
    {FortielForNode(MainFile, n, names, Lit(v), PrintName(n + 1, names[1])) :
         names \in {<<"a">>, <<"i">>, <<"i", "a">>},
         v \in {ListV(<<>>), ListV(<<IntV(1), IntV(2)>>), IntV(1),
                ListV(<<TupV(<<IntV(1), IntV(2)>>)>>)}}

UseNodes(n) ==
    {FortielUseNode(MainFile, n, p) :
         p \in {<<"lib.fi">>, <<".", "lib.fi">>, <<"defs.fi">>, <<".", "defs.fi">>,
                <<"self.fi">>, <<"nope.fi">>}}

\* #@ macro m ^(?P<a>.+)$ / x $a / #x / #@ pattern ^$ / y / #@ end macro
MacroM(n) ==
    FortielMacroNode(MainFile, n, "m",
        <<FortielPatternNode(MainFile, n, PCapture("a"),
              <<FortielLineListNode(MainFile, n + 1, << <<"x", " ", "$", "a">>, <<"#", "x">> >>)>>),
          FortielPatternNode(MainFile, n + 3, PEmpty,
              <<FortielLineListNode(MainFile, n + 4, << <<"y">> >>)>>)>>,
        <<>>, <<>>)

\* #@ macro c / #@ pattern ^$ / x / #@ section [once] s ^.*$ / y /
\* #@ finally / b / #@ end macro
MacroC(n, once) ==
    FortielMacroNode(MainFile, n, "c",
        <<FortielPatternNode(MainFile, n + 1, PEmpty,
              <<FortielLineListNode(MainFile, n + 2, << <<"x">> >>)>>)>>,
        <<FortielSectionNode(MainFile, n + 3, "s", once,
              <<FortielPatternNode(MainFile, n + 3, PAny,
                    <<FortielLineListNode(MainFile, n + 4, << <<"y">> >>)>>)>>)>>,
        <<FortielLineListNode(MainFile, n + 6, << <<"b">> >>)>>)

\* #@ macro d / #@ pattern ^$ / x / #@ section h ^.*$ / h /
\* #@ section once s ^.*$ / y / #@ section t ^.*$ / t / #@ finally / b /
\* #@ end macro
MacroD(n) ==
    FortielMacroNode(MainFile, n, "d",
        <<FortielPatternNode(MainFile, n + 1, PEmpty,
              <<FortielLineListNode(MainFile, n + 2, << <<"x">> >>)>>)>>,
        <<FortielSectionNode(MainFile, n + 3, "h", FALSE,
              <<FortielPatternNode(MainFile, n + 3, PAny,
                    <<FortielLineListNode(MainFile, n + 4, << <<"h">> >>)>>)>>),
          FortielSectionNode(MainFile, n + 5, "s", TRUE,
              <<FortielPatternNode(MainFile, n + 5, PAny,
                    <<FortielLineListNode(MainFile, n + 6, << <<"y">> >>)>>)>>),
          FortielSectionNode(MainFile, n + 7, "t", FALSE,
              <<FortielPatternNode(MainFile, n + 7, PAny,
                    <<FortielLineListNode(MainFile, n + 8, << <<"t">> >>)>>)>>)>>,
        <<FortielLineListNode(MainFile, n + 10, << <<"b">> >>)>>)

\* A macro whose section has the name of the macro.
MacroBad(n) ==
    FortielMacroNode(MainFile, n, "mm",
        <<FortielPatternNode(MainFile, n, PAny, <<>>)>>,
        <<FortielSectionNode(MainFile, n + 1, "mm", FALSE,
              <<FortielPatternNode(MainFile, n + 1, PAny, <<>>)>>)>>,
        <<>>)

\* A macro with two sections of one name.
MacroDup(n) ==
    FortielMacroNode(MainFile, n, "mm",
        <<FortielPatternNode(MainFile, n, PAny, <<>>)>>,
        <<FortielSectionNode(MainFile, n + 1, "s", FALSE,
              <<FortielPatternNode(MainFile, n + 1, PAny, <<>>)>>),
          FortielSectionNode(MainFile, n + 2, "s", FALSE,
              <<FortielPatternNode(MainFile, n + 2, PAny, <<>>)>>)>>,
        <<>>)

MacroNodes(n) ==
    {MacroM(n), MacroC(n, TRUE), MacroC(n, FALSE), MacroD(n), MacroBad(n), MacroDup(n)}

\* The leading spaces of the call segments.
CallSpaces == {<<>>, <<" ", " ">>}

Segment(n, spaces, name, argument) ==
    FortielCallSegmentNode(MainFile, n, spaces, name, argument)

\* Sibling groups that start with a call segment.
CallGroups(n) ==
    {<<Segment(n, spaces, "m", argument)>> :
         spaces \in CallSpaces, argument \in {<<>>, <<"b">>}}
    \cup {<<Segment(n, spaces, "c", <<>>),
            FortielLineListNode(MainFile, n + 1, << <<"a">> >>),
            Segment(n + 2, <<>>, "s", <<>>),
            FortielLineListNode(MainFile, n + 3, << <<"i">> >>),
            Segment(n + 4, <<>>, "endc", <<>>),
            FortielLineListNode(MainFile, n + 5, << <<"x">> >>)>> : spaces \in CallSpaces}
    \cup {<<Segment(n, <<>>, "c", <<>>), Segment(n + 1, <<" ">>, "c", <<>>),
            FortielLineListNode(MainFile, n + 2, << <<"a">> >>),
            Segment(n + 3, <<>>, "endc", <<>>), Segment(n + 4, <<>>, "s", <<>>),
            FortielLineListNode(MainFile, n + 5, << <<"i">> >>),
            Segment(n + 6, <<>>, "endc", <<>>)>>}
    \cup {<<Segment(n, spaces, "c", <<>>),
            FortielLineListNode(MainFile, n + 1, << <<"a">> >>),
            Segment(n + 2, <<>>, "s", <<>>), Segment(n + 3, <<>>, "s", <<>>),
            Segment(n + 4, <<>>, "endc", <<>>)>> : spaces \in CallSpaces}
    \cup {<<Segment(n, <<>>, "d", <<>>), Segment(n + 1, <<>>, "h", <<>>)>>
               \o body \o <<Segment(n + 4, <<>>, "t", <<>>), Segment(n + 5, <<>>, "endd", <<>>)>> :
               body \in {<<Segment(n + 2, <<>>, "s", <<>>)>>,
                         <<Segment(n + 2, <<>>, "s", <<>>), Segment(n + 3, <<>>, "s", <<>>)>>}}
    \cup {<<Segment(n, <<>>, "d", <<>>), Segment(n + 1, <<>>, "t", <<>>),
            Segment(n + 2, <<>>, "h", <<>>), Segment(n + 3, <<>>, "endd", <<>>)>>}
    \cup {<<Segment(n, <<>>, "c", <<>>), MacroM(n + 1), Segment(n + 7, <<>>, "m", <<>>),
            Segment(n + 8, <<>>, "endc", <<>>)>>}
    \cup {<<Segment(n, <<>>, "c", <<>>)>>, <<Segment(n, <<>>, "mm", <<>>)>>}

LineListNodes(n) ==
    {FortielLineListNode(MainFile, n, <<l>>) :
         l \in {<<"x">>, <<"x", " ", "$", "a">>, <<"$", "i">>, <<"@", ":">>, <<"#", "x">>,
                <<"!", "$", " ", "$", "a">>, <<"!", " ", "$", "a">>, <<"$", "$", "a">>,
                <<"a", " ", "+=", " ", "1">>}}

(***************************************************************************)
(* The actions: one per kind of root node.                                 *)
(***************************************************************************)
ExecuteLet == \E node \in LetNodes(pc + 1) : Run(<<node>>)
ExecuteDel == \E node \in DelNodes(pc + 1) : Run(<<node>>)
ExecuteIf == \E node \in IfNodes(pc + 1) : Run(<<node>>)
ExecuteDo == \E node \in DoNodes(pc + 1) : Run(<<node>>)
ExecuteFor == \E node \in ForNodes(pc + 1) : Run(<<node>>)
ExecuteUse == \E node \in UseNodes(pc + 1) : Run(<<node>>)
ExecuteMacro == \E node \in MacroNodes(pc + 1) : Run(<<node>>)
ExecuteCall == \E nodes \in CallGroups(pc + 1) : Run(nodes)
ExecuteLineList == \E node \in LineListNodes(pc + 1) : Run(<<node>>)

\* FortielExecutor.__init__
InitExecutor ==
    /\ scope = EmptyDict
    /\ macros = EmptyDict
    /\ imported_files_paths = {}
    /\ line_marker_format \in {"fpp", "cpp", "none"}
    /\ opened = <<>>
    /\ lets = EmptyDict
    /\ deepest = 0
    /\ err = NoErr
    /\ pc = 0
    /\ last = <<>>

\* The parser state as the record that the parser operators work on.
Ps == [file_path |-> MainFile, lines |-> lines, line |-> line, multiline |-> multiline,
       line_index |-> line_index, line_number |-> line_number,
       first_line |-> first_line, nodes |-> root_nodes, starts |-> starts, err |-> perr]

SetParser(ps) ==
    /\ lines = ps.lines
    /\ line = ps.line
    /\ multiline = ps.multiline
    /\ line_index = ps.line_index
    /\ line_number = ps.line_number
    /\ first_line = ps.first_line
    /\ root_nodes = ps.nodes
    /\ starts = ps.starts
    /\ perr = ps.err

\* The wrapper with the input files paths, before the first statement of
\* main after _gfortiel_parse_arguments.
InitMain(paths, position) ==
    /\ file_paths = paths
    /\ file_index = 0
    /\ exit_code = 0
    /\ output_file_paths = <<>>
    /\ temp_files = {}
    /\ wpc = position
    /\ exit_status = -1
    /\ gfortran = -1
    /\ failed = FALSE

\* The run of the executor starts after a parse that is not modelled, with
\* the primary line marker of execute_tree printed.
Init ==
    /\ InitExecutor
    /\ out = IF line_marker_format = "none" THEN <<>>
             ELSE <<PrimaryLineMarker(line_marker_format, MainFile)>>
    /\ SetParser([InitParser(MainFile, <<>>) EXCEPT !.err = NoErr])
    /\ phase = "execute"
    /\ InitMain(<<>>, "idle")

Next ==
    \/ ExecuteLet
    \/ ExecuteDel
    \/ ExecuteIf
    \/ ExecuteDo
    \/ ExecuteFor
    \/ ExecuteUse
    \/ ExecuteMacro
    \/ ExecuteCall
    \/ ExecuteLineList

vars == <<execVars, parseVars, wrapVars>>

Spec == Init /\ [][Next]_vars

(***************************************************************************)
(* The properties of the executor, checked under Spec.                     *)
(***************************************************************************)
\* Line markers in either format.
IsLineMarker(l) == StartsWith(l, <<"#", " ">>) \/ StartsWith(l, <<"#", "line", " ">>)

NonMarkers(ls) == SelectSeq(ls, LAMBDA l : ~IsLineMarker(l))

\* C1: a Do node over (start, stop[, step]) runs its body for start,
\* start+step, ... in order, up to and including stop, and never for an
\* index beyond stop.  The bodies of the model print the index.
C1_DoRunsUpToStop ==
    [][(/\ pc' = pc + 1
        /\ Len(last') = 1
        /\ last'[1].type = "Do"
        /\ last'[1].loop_nodes = PrintName(pc + 2, last'[1].index_name)
        /\ last'[1].ranges_expression.val.t = "tuple"
        /\ err'.kind = "none")
       => LET t == last'[1].ranges_expression.val.e
              start == t[1].i
              stop == t[2].i
              step == IF Len(t) = 3 THEN t[3].i ELSE 1
              Indices[i \in -8..8] ==
                  IF (step > 0 /\ i > stop) \/ (step < 0 /\ i < stop) THEN <<>>
                  ELSE << <<ToString(i)>> >> \o Indices[i + step]
          IN  NonMarkers(SubSeq(out', Len(out) + 1, Len(out'))) = Indices[start]]_vars

\* C2: a name bound by a let directive stays bound to the value that let
\* gave it until a del directive names it, whatever loops and macro calls
\* are executed in between.
C2_LetBindingPersists ==
    err.kind = "none" =>
        \A name \in DOMAIN lets : name \in DOMAIN scope /\ scope[name] = lets[name]

\* C3: a value-form Let of a name that is already bound raises a runtime
\* error and leaves the binding unchanged.
C3_LetOfBoundNameRejected ==
    [][(/\ pc' = pc + 1
        /\ Len(last') = 1
        /\ last'[1].type = "Let"
        /\ ~last'[1].arguments.some
        /\ last'[1].name \in DOMAIN scope)
       => /\ err'.kind = "FortielRuntimeError"
          /\ last'[1].name \in DOMAIN scope'
          /\ scope'[last'[1].name] = scope[last'[1].name]]_vars

\* C4: every let or del that names a builtin name raises a runtime error
\* and leaves the binding of that name as it was, bound or unbound.
C4_BuiltinNamesProtected ==
    [][\A name \in _FORTIEL_BUILTINS_NAMES :
          (/\ pc' = pc + 1
           /\ Len(last') = 1
           /\ \/ last'[1].type = "Let" /\ last'[1].name = name
              \/ last'[1].type = "Del"
                 /\ \E k \in 1..Len(last'[1].names) : last'[1].names[k] = name)
          => /\ err'.kind = "FortielRuntimeError"
             /\ (name \in DOMAIN scope') = (name \in DOMAIN scope)
             /\ name \in DOMAIN scope => scope'[name] = scope[name]]_vars

\* C4 witness: a del of __FILE__, which an earlier directive had bound,
\* was rejected and __FILE__ is still bound.
C4_Witness ==
    /\ Len(last) = 1
    /\ last[1].type = "Del"
    /\ last[1].names = <<"__FILE__">>
    /\ "__FILE__" \in DOMAIN scope
    /\ err.kind = "FortielRuntimeError"

\* C5: each file is parsed and executed through Use nodes at most once in
\* a run, and a Use of a file that was imported already changes neither
\* the scope, the macro table, the imported-file set nor the output.
C5_ImportedAtMostOnce ==
    [][/\ \A j, k \in 1..Len(opened') : opened'[j] = opened'[k] => j = k
       /\ (/\ pc' = pc + 1
           /\ Len(last') = 1
           /\ last'[1].type = "Use"
           /\ LET found == FindFile(last'[1].imported_file_path,
                                    <<DirName(last'[1].file_path)>>)
              IN  /\ found.found
                  /\ \E k \in 1..Len(opened) : opened[k] = RealFile(found.path))
          => /\ scope' = scope
             /\ macros' = macros
             /\ imported_files_paths' = imported_files_paths
             /\ out' = out]_vars

\* C6: a Use node, at the root or in a loop body, pushes no line to the
\* sink, and when it ends without error every let binding and macro
\* definition of each file it imported, at any depth, is in the scope and
\* the macro table.
C6_UseSilentAndDefining ==
    [][(/\ pc' = pc + 1
        /\ Len(last') = 1
        /\ \/ last'[1].type = "Use"
           \/ /\ last'[1].type = "Do"
              /\ \A k \in 1..Len(last'[1].loop_nodes) :
                     last'[1].loop_nodes[k].type = "Use")
       => /\ out' = out
          /\ err'.kind = "none" =>
                 \A k \in (Len(opened) + 1)..Len(opened') :
                     LET tree == FileTree(opened'[k], opened'[k])
                     IN  \A j \in 1..Len(tree) :
                             /\ tree[j].type = "Let" =>
                                    /\ tree[j].name \in DOMAIN scope'
                                    /\ scope'[tree[j].name] = tree[j].value_expression.val
                             /\ tree[j].type = "Macro" =>
                                    tree[j].name \in DOMAIN macros']_vars

\* C6 witness: a Use of lib.fi, which imports defs.fi, ended without
\* error: b, a and the macro mm are defined and nothing was printed since
\* the primary line marker.
C6_Witness ==
    /\ Len(last) = 1
    /\ last[1].type = "Use"
    /\ err.kind = "none"
    /\ opened = << <<"/", "w", "lib.fi">>, <<"/", "inst", "defs.fi">> >>
    /\ "b" \in DOMAIN scope
    /\ "a" \in DOMAIN scope
    /\ "mm" \in DOMAIN macros
    /\ Len(out) <= 1

\* C10: a Call with leading spaces S emits, for each non-marker line that
\* the same call without leading spaces emits, S followed by that line,
\* and emits the line markers without S.
C10_CallIndentsEveryLine ==
    [][(/\ pc' = pc + 1
        /\ Len(last') = 1
        /\ last'[1].type = "CallSegment"
        /\ err'.kind = "none")
       => \E unspaced \in {ExecuteNodeList(<<[last'[1] EXCEPT !.spaces_before = <<>>]>>,
                                            St, MainPrint).out} :
              /\ Len(out') = Len(unspaced)
              /\ \A k \in (Len(out) + 1)..Len(unspaced) :
                     out'[k] = IF IsLineMarker(unspaced[k]) THEN unspaced[k]
                               ELSE last'[1].spaces_before \o unspaced[k]]_vars

\* The number of elements of the sequence ls that satisfy Test.
CountOf(ls, Test(_)) == Cardinality({k \in 1..Len(ls) : Test(ls[k])})

\* The lines added to the output by the step.
Emitted == SubSeq(out', Len(out) + 1, Len(out'))

\* C11: in the expansion of a call of the construct c, whose only section
\* is s, the body of s is emitted once per call section naming s when s is
\* not `once`; when s is `once` it is emitted for the first call section
\* only, and a second call section naming s raises a runtime error.
C11_OnceSectionMatchedOnce ==
    [][(/\ pc' = pc + 1
        /\ last'[1].type = "CallSegment"
        /\ last'[1].name = "c"
        /\ "c" \in DOMAIN macros)
       => LET IsS(node) == node.type = "CallSegment" /\ node.name = "s"
              IsBody(l) == LStrip(l) = <<"y">>
              calls == CountOf(last', IsS)
              bodies == CountOf(Emitted, IsBody)
          IN  IF macros["c"].section_nodes[1].once
              THEN /\ bodies = (IF calls = 0 THEN 0 ELSE 1)
                   /\ calls > 1 => /\ err'.kind = "FortielRuntimeError"
                                   /\ err'.msg = "unexpected call section"
              ELSE bodies = calls /\ (calls > 0 => err'.kind = "none")]_vars

\* C11 witness: the construct c with a `once` section s was called with two
\* call sections naming s, and the second one was refused.
C11_Witness ==
    /\ Len(last) = 5
    /\ last[1].type = "CallSegment" /\ last[1].name = "c"
    /\ last[3].type = "CallSegment" /\ last[3].name = "s"
    /\ last[4].type = "CallSegment" /\ last[4].name = "s"
    /\ "c" \in DOMAIN macros
    /\ macros["c"].section_nodes[1].once
    /\ err.kind = "FortielRuntimeError"
    /\ err.msg = "unexpected call section"
    /\ CountOf(out, LAMBDA l : LStrip(l) = <<"y">>) = 1

\* C12: when the construct d, with the sections h, `once` s and t and a
\* finally body, is called with the call sections h, s, s, t, the body of t
\* is emitted after the second s is refused and the finally body is the
\* last line that the call emits.
C12_TailAndFinallyAfterRefusal ==
    [][(/\ pc' = pc + 1
        /\ Len(last') = 6
        /\ last'[1].type = "CallSegment"
        /\ last'[1].name = "d"
        /\ "d" \in DOMAIN macros)
       => /\ CountOf(Emitted, LAMBDA l : l = <<"t">>) = 1
          /\ Emitted # <<>>
          /\ Emitted[Len(Emitted)] = <<"b">>]_vars

\* C14: the code line `a += 1` is emitted as `a = a + 1`.
C14_AugmentedAssignmentRewritten ==
    [][(/\ pc' = pc + 1
        /\ Len(last') = 1
        /\ last'[1].type = "LineList"
        /\ last'[1].lines = << <<"a", " ", "+=", " ", "1">> >>)
       => /\ err'.kind = "none"
          /\ Emitted # <<>>
          /\ Emitted[Len(Emitted)] = <<"a", " ", "=", " ", "a", " ", "+", " ", "1">>]_vars

\* C15: a code line whose first non-blank character is `!` and that does
\* not start with `!$` is emitted unchanged and without error, whatever the
\* scope holds.
C15_CommentLineUnchanged ==
    [][(/\ pc' = pc + 1
        /\ Len(last') = 1
        /\ last'[1].type = "LineList"
        /\ StartsWith(LStrip(last'[1].lines[1]), <<"!">>)
        /\ ~StartsWith(LStrip(last'[1].lines[1]), <<"!", "$">>))
       => /\ err'.kind = "none"
          /\ NonMarkers(Emitted) = last'[1].lines]_vars

\* C16: the line that the substitution engine returns for a code line is a
\* fixpoint of the engine: evaluated again in the same scope, at the same
\* place, it is returned unchanged and without error.
C16_SubstitutionFixpoint ==
    [][(/\ pc' = pc + 1
        /\ Len(last') = 1
        /\ last'[1].type = "LineList"
        /\ err'.kind = "none")
       => \A k \in 1..Len(Emitted) :
              IsLineMarker(Emitted[k])
              \/ \E r \in {EvaluateLine(Emitted[k], scope', last'[1].file_path,
                                         last'[1].line_number)} :
                     r.err.kind = "none" /\ r.line = Emitted[k]]_vars

\* C17: an `ifdef NAME` block emits its then-body exactly when NAME is
\* bound in the scope when the directive is executed and its else-body
\* otherwise, `ifndef NAME` does the opposite, and the condition evaluates
\* without error.
C17_IfdefTestsBinding ==
    [][(/\ pc' = pc + 1
        /\ Len(last') = 1
        /\ last'[1].type = "If"
        /\ last'[1].condition_expression.k \in {"call", "notcall"})
       => LET name == last'[1].condition_expression.val.s[1]
              then == (name \in DOMAIN scope) = (last'[1].condition_expression.k = "call")
          IN  /\ err'.kind = "none"
              /\ NonMarkers(Emitted) = (IF then THEN last'[1].then_nodes[1].lines
                                        ELSE last'[1].else_nodes[1].lines)]_vars

\* C18: the only exceptions that leave the parser or the executor are the
\* syntax error and the runtime error, each with a file path and a line
\* number, and the RuntimeError of the internal invariant of
\* _execute_node.
C18_OnlyFortielErrors ==
    \A e \in {perr, err} :
        /\ e.kind \in {"none", "FortielSyntaxError", "FortielRuntimeError", "RuntimeError"}
        /\ e.kind \in {"FortielSyntaxError", "FortielRuntimeError"}
               => e.file # <<>> /\ e.line >= 1

\* C21: in each iteration of the body of `do i = 1, 2` the index i and the
\* loop counter __INDEX__ both have the current index value, so the body
\* line `$i $__INDEX__` is emitted as `1 1` and `2 2`; when the Do node has
\* completed, i is unbound and the loop counter is what it was before.
C21_DoBindsIndexAndCounter ==
    [][(/\ pc' = pc + 1
        /\ Len(last') = 1
        /\ last'[1].type = "Do"
        /\ last'[1].loop_nodes[1].type = "LineList"
        /\ last'[1].loop_nodes[1].lines = << <<"$", "i", " ", "$", "__INDEX__">> >>)
       => /\ err'.kind = "none"
          /\ NonMarkers(Emitted) = << <<"1", " ", "1">>, <<"2", " ", "2">> >>
          /\ "i" \notin DOMAIN scope'
          /\ LoopIndex(scope') = LoopIndex(scope)]_vars

\* The call segments and other nodes that a list of resolved nodes was
\* made from, without the end segments: a Call stands for its segment, its
\* captured nodes and, for each of its call sections, the section's segment
\* and captured nodes.
RECURSIVE Unresolved(_)
Unresolved(nodes) ==
    IF nodes = <<>> THEN <<>>
    ELSE LET node == Head(nodes)
             OfSections[k \in 0..Len(node.call_section_nodes)] ==
                 IF k = 0 THEN <<>>
                 ELSE LET section == node.call_section_nodes[k]
                      IN  OfSections[k - 1]
                          \o <<FortielCallSegmentNode(section.file_path, section.line_number,
                                                      <<>>, section.name, section.argument)>>
                          \o Unresolved(section.captured_nodes)
         IN  (IF node.type # "Call" THEN <<node>>
              ELSE <<FortielCallSegmentNode(node.file_path, node.line_number,
                                            node.spaces_before, node.name, node.argument)>>
                   \o Unresolved(node.captured_nodes)
                   \o OfSections[Len(node.call_section_nodes)])
             \o Unresolved(Tail(nodes))

RECURSIVE BodyLines(_, _)
BodyLines(nodes, spaces) ==
    IF nodes = <<>> THEN <<>>
    ELSE (IF Head(nodes).type # "LineList" THEN <<>>
          ELSE [k \in 1..Len(Head(nodes).lines) |-> spaces \o Head(nodes).lines[k]])
         \o BodyLines(Tail(nodes), spaces)

\* The position of the section named name among the sections of macro_node.
SectionIndex(macro_node, name) ==
    CHOOSE j \in 1..Len(macro_node.section_nodes) : macro_node.section_nodes[j].name = name

\* The body of the first pattern of macro_node that matches argument.
MatchedBody(macro_node, argument) ==
    macro_node.pattern_nodes[
        CHOOSE k \in 1..Len(macro_node.pattern_nodes) :
            /\ MatchPattern(macro_node.pattern_nodes[k].pattern, argument).ok
            /\ \A j \in 1..(k - 1) :
                   ~MatchPattern(macro_node.pattern_nodes[j].pattern, argument).ok].match_nodes

\* The lines that the claimed order of a call gives for resolved nodes: a
\* line list gives its lines; a Call gives the matched body, the lines of
\* its captured nodes, for each call section the matched section body and
\* the lines of its captured nodes, and the finally body once.
RECURSIVE ClaimedLines(_, _)
ClaimedLines(nodes, table) ==
    IF nodes = <<>> THEN <<>>
    ELSE LET node == Head(nodes)
             macro_node == table[node.name]
             OfSections[k \in 0..Len(node.call_section_nodes)] ==
                 IF k = 0 THEN <<>>
                 ELSE LET section == node.call_section_nodes[k]
                          section_node ==
                              macro_node.section_nodes[SectionIndex(macro_node, section.name)]
                      IN  OfSections[k - 1]
                          \o BodyLines(MatchedBody(section_node, section.argument),
                                       node.spaces_before)
                          \o ClaimedLines(section.captured_nodes, table)
         IN  (IF node.type = "LineList" THEN BodyLines(<<node>>, <<>>)
              ELSE IF node.type # "Call" THEN <<>>
              ELSE BodyLines(MatchedBody(macro_node, node.argument), node.spaces_before)
                   \o ClaimedLines(node.captured_nodes, table)
                   \o OfSections[Len(node.call_section_nodes)]
                   \o BodyLines(macro_node.finally_nodes, node.spaces_before))
             \o ClaimedLines(Tail(nodes), table)

\* The nodes captured by the Call node and by its call sections.
AllCaptured(node) ==
    {node.captured_nodes[k] : k \in 1..Len(node.captured_nodes)}
    \cup UNION {{node.call_section_nodes[c].captured_nodes[k] :
                    k \in 1..Len(node.call_section_nodes[c].captured_nodes)} :
                c \in 1..Len(node.call_section_nodes)}

\* The Call node is a call of a construct in which every argument, of the
\* call and of its call sections, matches a pattern of the macro or of the
\* section that it names, and the captured nodes are code lines or such
\* calls.
RECURSIVE ArgumentsMatch(_, _)
ArgumentsMatch(node, table) ==
    /\ node.name \in DOMAIN table
    /\ IsConstruct(table[node.name])
    /\ LET macro_node == table[node.name]
       IN  /\ \E k \in 1..Len(macro_node.pattern_nodes) :
                  MatchPattern(macro_node.pattern_nodes[k].pattern, node.argument).ok
           /\ \A c \in 1..Len(node.call_section_nodes) :
                  LET section == node.call_section_nodes[c]
                      section_node ==
                          macro_node.section_nodes[SectionIndex(macro_node, section.name)]
                  IN  \E k \in 1..Len(section_node.pattern_nodes) :
                          MatchPattern(section_node.pattern_nodes[k].pattern,
                                       section.argument).ok
    /\ \A captured \in AllCaptured(node) :
           \/ captured.type = "LineList"
           \/ captured.type = "Call" /\ ArgumentsMatch(captured, table)

\* The call sections of the Call node, and of the calls that it captured,
\* name the sections of the macro in the order of their declaration, and
\* none names again the `once` section that the call section before it
\* named.
RECURSIVE SectionsInOrder(_, _)
SectionsInOrder(node, table) ==
    /\ \A c \in 1..(Len(node.call_section_nodes) - 1) :
           LET macro_node == table[node.name]
               this == SectionIndex(macro_node, node.call_section_nodes[c].name)
               next == SectionIndex(macro_node, node.call_section_nodes[c + 1].name)
           IN  \/ this < next
               \/ this = next /\ ~macro_node.section_nodes[this].once
    /\ \A captured \in AllCaptured(node) :
           captured.type = "Call" => SectionsInOrder(captured, table)

\* The step executes a sibling list whose head is a resolved call of a
\* construct in which every argument matches, followed by code lines only.
ConstructCallStep(r) ==
    /\ r.err.kind = "none"
    /\ ArgumentsMatch(r.nodes[1], macros)
    /\ \A k \in 2..Len(r.nodes) : r.nodes[k].type = "LineList"

Backward(node, macro_node) ==
    {c \in 2..Len(node.call_section_nodes) :
        SectionIndex(macro_node, node.call_section_nodes[c].name)
            < SectionIndex(macro_node, node.call_section_nodes[c - 1].name)}

\* C24: a call of a construct that completes without error names the
\* sections in the order of their declaration, and a call whose call
\* section names a section declared before the one named before it ends
\* with the runtime error `unexpected call section` at the file and line of
\* the first such call section.
C24_SectionCursorOnlyForward ==
    [][(/\ pc' = pc + 1
        /\ last'[1].type = "CallSegment"
        /\ last'[1].name \in DOMAIN macros
        /\ IsConstruct(macros[last'[1].name]))
       => \E r \in {ResolveCallSegment(1, last', macros)} :
              ConstructCallStep(r)
              => LET node == r.nodes[1]
                     back == Backward(node, macros[last'[1].name])
                     first == node.call_section_nodes[
                                  CHOOSE c \in back : \A b \in back : c <= b]
                 IN  /\ err'.kind = "none" => back = {}
                     /\ back # {} =>
                            /\ err'.kind = "FortielRuntimeError"
                            /\ err'.msg = "unexpected call section"
                            /\ err'.file = first.file_path
                            /\ err'.line = first.line_number]_vars

\* C24 witness: the construct d, with the sections h, s and t in this
\* order, was called with the call sections t and h, and the call ended
\* with the error at the call section h.
C24_Witness ==
    /\ Len(last) = 4
    /\ last[1].type = "CallSegment" /\ last[1].name = "d"
    /\ last[2].name = "t" /\ last[3].name = "h"
    /\ "d" \in DOMAIN macros
    /\ err.kind = "FortielRuntimeError"
    /\ err.msg = "unexpected call section"
    /\ err.line = last[3].line_number

\* The section names of the macro are pairwise distinct and none is the
\* name of the macro.
DistinctSections(macro_node) ==
    /\ \A j, k \in 1..Len(macro_node.section_nodes) :
           j # k => macro_node.section_nodes[j].name # macro_node.section_nodes[k].name
    /\ \A k \in 1..Len(macro_node.section_nodes) :
           macro_node.section_nodes[k].name # macro_node.name

\* C25: every macro of the macro table has pairwise distinct section names,
\* none of them the name of the macro; the execution of a Macro node that
\* has not, or whose name is in the table, ends with an error and the
\* table as it was.
C25_MacroTableSectionsDistinct ==
    [][/\ \A name \in DOMAIN macros' : DistinctSections(macros'[name])
       /\ (/\ pc' = pc + 1
           /\ Len(last') = 1
           /\ last'[1].type = "Macro"
           /\ (~DistinctSections(last'[1]) \/ last'[1].name \in DOMAIN macros))
          => /\ err'.kind = "FortielRuntimeError"
             /\ macros' = macros]_vars

\* C25 witness: a Macro node with two sections of one name was executed
\* when the table held another macro, and the execution ended with an error.
C25_Witness ==
    /\ Len(last) = 1
    /\ last[1].type = "Macro"
    /\ Len(last[1].section_nodes) = 2
    /\ last[1].section_nodes[1].name = last[1].section_nodes[2].name
    /\ last[1].name \notin DOMAIN macros
    /\ macros # EmptyDict
    /\ err.kind = "FortielRuntimeError"

\* C26: the code line `@:` among the root nodes, where no Do body is being
\* executed, ends with a runtime error, and in the body of `do a = 1, 1`
\* inside `do i = 1, 2` it is emitted as one copy, `:`, in each of the two
\* iterations.
C26_RangelessOnlyInsideDo ==
    [][/\ (/\ pc' = pc + 1
           /\ Len(last') = 1
           /\ last'[1].type = "LineList"
           /\ last'[1].lines = << <<"@", ":">> >>)
          => /\ err'.kind = "FortielRuntimeError"
             /\ NonMarkers(Emitted) = <<>>
       /\ (/\ pc' = pc + 1
           /\ Len(last') = 1
           /\ last'[1].type = "Do"
           /\ last'[1].loop_nodes[1].type = "Do")
          => /\ err'.kind = "none"
             /\ NonMarkers(Emitted) = << <<":">>, <<":">> >>]_vars

\* C27: a For node whose iterable is the empty list ends without error,
\* emits no line of its body, and leaves every binding of the scope other
\* than __FILE__ and __LINE__ as it was, also a binding of a loop name.
C27_EmptyForChangesNothing ==
    [][(/\ pc' = pc + 1
        /\ Len(last') = 1
        /\ last'[1].type = "For"
        /\ last'[1].iterable_expression = Lit(ListV(<<>>)))
       => /\ err'.kind = "none"
          /\ NonMarkers(Emitted) = <<>>
          /\ \A name \in DOMAIN scope \ {"__FILE__", "__LINE__"} :
                 name \in DOMAIN scope' /\ scope'[name] = scope[name]]_vars

\* C28: a Del node that ends with an error leaves every binding of the
\* scope as it was: no name listed before the failing one is removed.
C28_FailedDelChangesNothing ==
    [][(/\ pc' = pc + 1
        /\ Len(last') = 1
        /\ last'[1].type = "Del"
        /\ err'.kind # "none")
       => scope' = scope]_vars

\* C29: when the Macro node of m and, after it, a call segment of m lie
\* between the call segment of the construct c and its end segment, the
\* macro is defined before the call of m would be executed, and the
\* execution does not end with the error that m was not previously defined.
C29_ScopedCallSeesEarlierMacro ==
    [][(/\ pc' = pc + 1
        /\ Len(last') = 4
        /\ last'[1].type = "CallSegment"
        /\ last'[1].name \in DOMAIN macros
        /\ IsConstruct(macros[last'[1].name])
        /\ last'[2].type = "Macro"
        /\ last'[3].type = "CallSegment"
        /\ last'[3].name = last'[2].name
        /\ last'[4].name = EndName(last'[1].name))
       => err'.msg # "macro was not previously defined"]_vars

\* C30: the executions of imported trees are never nested deeper than the
\* number of distinct files of the run, the main file and the files opened
\* by Use nodes, plus one.
C30_UseNestingBounded ==
    deepest <= Cardinality({RealFile(MainFile)} \cup {opened[k] : k \in 1..Len(opened)}) + 1

(***************************************************************************)
(* fortiel_preprocess: the main file is read, parsed statement by          *)
(* statement and the tree is executed.                                     *)
(***************************************************************************)
SampleLines ==
    {<<"x">>,
     <<"y", " ">>,
     <<"x", " ", "&">>,
     <<" ", "&", " ", "y">>,
     <<"x", " ", "$", "a">>,
     <<"#", "@", " ", "del", " ", "a", ",", " ", "b">>,
     <<"#", "@", " ", "del", " ", "a", ",", " ", "&">>,
     <<" ", "b">>,
     <<"#", "@", " ", "let", " ", "a", " ", "=", " ", "1">>,
     <<"#", "@", " ", "LET", " ", "A", " ", "=", " ", "1">>,
     <<" ", "@", "M", " ", "b">>}

\* The files of at most MaxLines lines.
Files == UNION {[1..n -> SampleLines] : n \in 0..MaxLines}

InitParse ==
    /\ InitExecutor
    /\ out = <<>>
    /\ \E file \in Files : SetParser(InitParser(MainFile, file))
    /\ phase = "parse"
    /\ InitMain(<<>>, "idle")

SetParserNext(ps) ==
    /\ line' = ps.line
    /\ multiline' = ps.multiline
    /\ line_index' = ps.line_index
    /\ line_number' = ps.line_number
    /\ first_line' = ps.first_line
    /\ root_nodes' = ps.nodes
    /\ starts' = ps.starts
    /\ perr' = ps.err
    /\ UNCHANGED <<lines, phase, execVars, wrapVars>>

Parsing == phase = "parse" /\ perr.kind = "none" /\ ~MatchesEnd(Ps)

\* One iteration of the loop of parse(), by the kind of the current line.
ParseDirectiveStep ==
    /\ Parsing
    /\ MatchDirective(line).ok
    /\ SetParserNext(ParseStatement(Ps))

ParseCallSegmentStep ==
    /\ Parsing
    /\ ~MatchDirective(line).ok
    /\ MatchCall(line).ok
    /\ SetParserNext(ParseStatement(Ps))

ParseLineListStep ==
    /\ Parsing
    /\ ~MatchDirective(line).ok
    /\ ~MatchCall(line).ok
    /\ SetParserNext(ParseStatement(Ps))

\* executor.execute_tree(tree, print)
ExecuteParsedTree ==
    /\ phase = "parse"
    /\ perr.kind = "none"
    /\ MatchesEnd(Ps)
    /\ phase' = "done"
    /\ \E s \in {ExecuteTree(MainFile, root_nodes, St, MainPrint)} :
           /\ scope' = s.scope
           /\ macros' = s.macros
           /\ imported_files_paths' = s.imported
           /\ out' = s.out
           /\ opened' = s.opened
           /\ lets' = s.lets
           /\ deepest' = s.deepest
           /\ err' = s.err
    /\ last' = root_nodes
    /\ UNCHANGED <<pc, line_marker_format, lines, line, multiline, line_index,
                   line_number, first_line, root_nodes, starts, perr, wrapVars>>

NextParse ==
    \/ ParseDirectiveStep
    \/ ParseCallSegmentStep
    \/ ParseLineListStep
    \/ ExecuteParsedTree

SpecParse == InitParse /\ [][NextParse]_vars

(***************************************************************************)
(* The properties of the parser and of whole runs, checked under           *)
(* SpecParse.                                                              *)
(***************************************************************************)
\* C7: the line number of a node parsed from a logical line that starts
\* on a physical line ending in `&` is the number of that first physical
\* line.
C7_NodeNumberedByFirstLine ==
    \A k \in 1..Len(root_nodes) :
        EndsWith(RStrip(lines[starts[k]]), <<"&">>)
            => root_nodes[k].line_number = starts[k]

\* C8: a directive written over several physical lines joined by `&`
\* parses to the same nodes, line numbers aside, as the file in which that
\* directive is written on one line, at the first line of the file as at
\* later lines.
C8_ContinuationNeutral ==
    LET Joined(first, next) ==
            LET stripped == LStrip(RStrip(next))
            IN  RStrip(RemoveSuffix(first, <<"&">>)) \o <<" ">>
                    \o (IF StartsWith(stripped, <<"&">>)
                        THEN LStrip(RemovePrefix(stripped, <<"&">>)) ELSE stripped)
        \* inCode: the line continues a code line that ended in `&`.
        OneLine[ls \in Seq(Seq(STRING)), inCode \in BOOLEAN] ==
            IF ls = <<>> THEN <<>>
            ELSE LET first == RStrip(ls[1])
                     continues == EndsWith(first, <<"&">>)
                 IN  IF ~inCode /\ continues /\ MatchDirective(first).ok /\ Len(ls) > 1
                     THEN OneLine[<<Joined(first, ls[2])>> \o SubSeq(ls, 3, Len(ls)), FALSE]
                     ELSE <<ls[1]>> \o OneLine[Tail(ls), continues]
        Textual(nodes) == [k \in 1..Len(nodes) |-> [nodes[k] EXCEPT !.line_number = 0]]
        one_line == Parse(MainFile, OneLine[lines, FALSE])
    IN  (/\ perr.kind # "none" \/ MatchesEnd(Ps)
         /\ one_line.err.kind = "none")
        => /\ perr.kind = "none"
           /\ Textual(root_nodes) = Textual(one_line.nodes)

\* C9: for a file without directive lines and call-segment lines the run
\* completes and the emitted lines that are not line markers are the
\* lines of the file, in order and unchanged.
C9_PlainFileVerbatim ==
    (\A k \in 1..Len(lines) :
         ~MatchDirective(lines[k]).ok /\ ~MatchCall(lines[k]).ok)
    => /\ perr.kind = "none"
       /\ err.kind = "none"
       /\ phase = "done" => NonMarkers(out) = lines

\* C13: a name bound by a let directive in one letter case is found by a
\* substitution that refers to it in another letter case: after `let A = 1`
\* or `let a = 1`, the line `x $a` is emitted as `x 1` without error.
C13_NamesCaseInsensitive ==
    (/\ phase = "done"
     /\ Len(root_nodes) = 2
     /\ root_nodes[1].type = "Let"
     /\ MakeName(root_nodes[1].name) = "a"
     /\ root_nodes[2].type = "LineList"
     /\ root_nodes[2].lines = << <<"x", " ", "$", "a">> >>)
    => /\ err.kind = "none"
       /\ out # <<>>
       /\ out[Len(out)] = <<"x", " ", "1">>

(***************************************************************************)
(* gfortiel, the compiler wrapper: each input file is preprocessed into a  *)
(* new file, gfortran is run on the new files, the new files are removed   *)
(* and the process exits.                                                  *)
(***************************************************************************)
\* The number of input files on the command line.
MaxInputs == 2

\* The source files on disk, by name; "missing.f" is on the command line
\* only.
SourceFiles ==
    [name \in {"ok.f", "partial.f", "runtime.f", "syntax.f", "empty.f"} |->
        CASE name = "ok.f" -> << <<"x">> >>
          [] name = "partial.f" -> << <<"x">>, <<"#", "@", " ", "del", " ", "a", ",", " ", "b">> >>
          [] name = "runtime.f" -> << <<"x", " ", "$", "a">> >>
          [] name = "syntax.f" -> << <<"x">>, <<"#", "@", " ", "x">> >>
          [] name = "empty.f" -> <<>>]

InputNames == DOMAIN SourceFiles \cup {"missing.f"}

\* fortiel_preprocess(file_path, output_file_path): the error raised, and
\* whether the output file was created and the lines written to it.
FortielPreprocess(file_path) ==
    IF file_path \notin DOMAIN SourceFiles
    THEN [created |-> FALSE, out |-> <<>>, err |-> PyError("FileNotFoundError")]
    ELSE LET Executed(st) == [created |-> TRUE, out |-> st.out, err |-> st.err]
             Parsed(ps) ==
                 IF ps.err.kind # "none"
                 THEN [created |-> FALSE, out |-> <<>>, err |-> ps.err]
                 ELSE Executed(ExecuteTree(<<file_path>>, ps.nodes,
                                           [scope |-> EmptyDict, macros |-> EmptyDict,
                                            imported |-> {}, fmt |-> "fpp", out |-> <<>>,
                                            opened |-> <<>>, lets |-> EmptyDict,
                                            nesting |-> 0, deepest |-> 0, err |-> NoErr],
                                           MainPrint))
         IN  Parsed(Parse(<<file_path>>, SourceFiles[file_path]))

_EXIT_SUCCESS == 0
_EXIT_ERROR == 1

\* _gfortiel_preprocess: the exit code for the outcome of fortiel_preprocess;
\* only a FortielError is caught.
GfortielPreprocessCode(r) == IF r.err.kind = "none" THEN _EXIT_SUCCESS ELSE _EXIT_ERROR

\* The value of os.system for a command that exits with status g: the
\* status in the encoding of wait().
OsSystem(g) == g * 256

\* The exit status that the parent sees after sys.exit(code).
SysExit(code) == code % 256

\* The exit statuses of gfortran.
GfortranStatuses == {0, 1, 2}

InitWrapper ==
    /\ InitExecutor
    /\ out = <<>>
    /\ SetParser([InitParser(MainFile, <<>>) EXCEPT !.err = NoErr])
    /\ phase = "wrapper"
    /\ line_marker_format = "fpp"
    /\ \E n \in 0..MaxInputs : \E paths \in [1..n -> InputNames] :
           InitMain(paths, "preprocess")

\* One iteration of `for file_path in file_paths` of main.  The temporary
\* file of NamedTemporaryFile is deleted when its `with` block ends; the
\* output file is a new file named after it.  An exception that is no
\* FortielError leaves main and ends the process with status 1.
GfortielPreprocess ==
    /\ wpc = "preprocess"
    /\ file_index < Len(file_paths)
    /\ file_index' = file_index + 1
    /\ \E r \in {FortielPreprocess(file_paths[file_index + 1])} :
           /\ temp_files' = IF r.created THEN temp_files \cup {file_index + 1}
                            ELSE temp_files
           /\ failed' = (failed \/ r.err.kind # "none")
           /\ IF r.err.kind \in {"none", "FortielSyntaxError", "FortielRuntimeError"}
              THEN /\ output_file_paths' =
                          IF GfortielPreprocessCode(r) = _EXIT_SUCCESS
                          THEN Append(output_file_paths, file_index + 1)
                          ELSE output_file_paths
                   /\ exit_code' = IF exit_code = 0 THEN GfortielPreprocessCode(r)
                                   ELSE exit_code
                   /\ UNCHANGED <<wpc, exit_status>>
              ELSE /\ wpc' = "exited"
                   /\ exit_status' = 1
                   /\ UNCHANGED <<output_file_paths, exit_code>>
    /\ UNCHANGED <<file_paths, gfortran, execVars, parseVars>>

\* `if exit_code == _EXIT_SUCCESS: exit_code = os.system(compiler_command)`
GfortielCompile ==
    /\ wpc = "preprocess"
    /\ file_index = Len(file_paths)
    /\ wpc' = "remove"
    /\ IF exit_code = _EXIT_SUCCESS
       THEN \E g \in GfortranStatuses : gfortran' = g /\ exit_code' = OsSystem(g)
       ELSE UNCHANGED <<gfortran, exit_code>>
    /\ UNCHANGED <<file_paths, file_index, output_file_paths, temp_files, exit_status,
                   failed, execVars, parseVars>>

\* The removal of the files of output_file_paths and sys.exit(exit_code).
GfortielExit ==
    /\ wpc = "remove"
    /\ wpc' = "exited"
    /\ temp_files' = temp_files \ {output_file_paths[k] : k \in 1..Len(output_file_paths)}
    /\ exit_status' = SysExit(exit_code)
    /\ UNCHANGED <<file_paths, file_index, exit_code, output_file_paths, gfortran, failed,
                   execVars, parseVars>>

NextWrapper ==
    \/ GfortielPreprocess
    \/ GfortielCompile
    \/ GfortielExit

SpecWrapper == InitWrapper /\ [][NextWrapper]_vars

\* C19: when the wrapper has exited, no file that it created to hold
\* preprocessed output is left on disk.
C19_TemporaryFilesRemoved ==
    wpc = "exited" => temp_files = {}

\* C20: the exit status of the wrapper is 0 only when every input was
\* preprocessed without error and gfortran exited with status 0, and it is
\* not 0 when the preprocessing of an input failed or gfortran exited with
\* another status.
C20_ExitStatusReflectsFailure ==
    wpc = "exited" =>
        /\ exit_status = 0 => (~failed /\ gfortran = 0)
        /\ (failed \/ gfortran > 0) => exit_status # 0

====
